---------------------------- MODULE Spec2Model ----------------------------
(***************************************************************************)
(* Model of the notebooks of maurapintor/unica_mlsec_labs:                 *)
(*   04_gradient_obfuscation_and_adaptive_attacks.ipynb  (notebook 04)     *)
(*   06_explainability.ipynb                             (notebook 06)     *)
(*   unnamed/part_001, the poisoning notebook            (notebook 05)     *)
(* A notebook is a list of cells; a cell runs its statements in order and  *)
(* stops at the first exception, keeping the bindings made so far.         *)
(*                                                                         *)
(* The module holds several specifications over disjoint groups of         *)
(* variables:                                                              *)
(*   SpecBoot   the bootstrap cells (imports and pip installs)             *)
(*   Spec       a session of notebook 04: working directory, file system,  *)
(*              cached weights, MODEL_ID                                   *)
(*   SpecData   the data-loading cells and their rescaling                 *)
(*   SpecAttack the loss-path cell of notebook 04 running the attack       *)
(*   SpecText   the cells of notebook 06 around the text model             *)
(*   SpecNames  the names read and bound by the cells, from the top        *)
(***************************************************************************)
EXTENDS Integers, Sequences, FiniteSets, TLC

VARIABLES
    \* ---- bootstrap cells (SpecBoot) ----
    importable,   \* packages that `import` finds in the environment
    bNb,          \* notebook whose bootstrap cell is being executed
    bPc,          \* position inside that cell
    bImport,      \* outcome of each import statement of this execution
    bInstall,     \* packages whose %pip install line was reached in this execution
    bFallback,    \* packages whose %pip install line inside an except-branch was reached
    \* ---- a session of notebook 04 (Spec) ----
    cwd,          \* os.getcwd(), as the path from the directory the kernel started in
    fs,           \* the paths (directories and files) that exist
    cuda,         \* torch.cuda.is_available()
    MODEL_ID,     \* the global name MODEL_ID
    bound,        \* the other global names that are bound
    cell,         \* the cell being executed, or "idle"
    pc,           \* index of the next step of that cell
    raised,       \* the exception that ended the last cell, or "none"
    pos,          \* index in CellOrder of the next cell of a top-to-bottom execution
    linear,       \* the cells executed so far are a prefix of CellOrder, each once
    clones,       \* number of successful git clone commands
    cloneFailed,  \* some git clone failed
    dlOk,         \* per weight file, the number of download_gdrive calls that wrote it
    dlCalls,      \* the <<file, id>> arguments of every download_gdrive call
    dlFailed,     \* some download_gdrive call failed
    mapLocation,  \* map_location of the last torch.load
    allOk,        \* no cell executed in this kernel has ended with an exception
    \* ---- the data-loading cells (SpecData) ----
    dNb,          \* the notebook whose kernel this is
    dRaw,         \* what the loaders return
    dTr,          \* tr.X, or Unbound
    dVal,         \* val.X, or Unbound
    dTs,          \* ts.X, or Unbound
    dNmz,         \* the fitted normalizer nmz, or NoNmz
    dLast,        \* the last cell executed
    dRan,         \* the cells executed so far
    dAgain,       \* the cells executed more than once
    \* ---- a run of the gradient attack (SpecAttack) ----
    aGrad,        \* the gradient of the attacked loss at each point
    aBoundary,    \* the decision boundary of clf
    aPc,          \* position inside the loss-path cell
    aX,           \* the current point of the running attack
    aSeq,         \* attack.x_seq, the path of the last run
    aPred,        \* pred, or NoLabel
    aPredAdv,     \* y_pred_adv, or NoLabel
    \* ---- the text-model cells of notebook 06 (SpecText) ----
    tCuda,        \* an accelerator is available to the kernel
    tCell,        \* the cell being executed, or "idle"
    tPc,          \* index of the next statement of that cell
    tKind,        \* for each global name, the kind of object it is bound to
    tDevice,      \* the device of the object bound to `model`
    tRaised,      \* the exception that ended the last cell, or "none"
    tPredAtEntry, \* what `pred` was bound to when the last cell started
    \* ---- names read and bound by the cells (SpecNames) ----
    nNb,          \* the notebook whose kernel this is
    nPos,         \* index of the next cell from the top
    nBound,       \* the global names that are bound
    nSkipped,     \* number of cells passed over without executing them
    nErrors,      \* the names whose read raised NameError
    \* ---- the shared names of notebook 04 (SpecShared) ----
    sBind,        \* for each shared global name, what it is bound to
    sWriter,      \* for each shared global name, the cell that bound it last
    sLast,        \* the cell executed last
    sRun,         \* the attack.run call of that cell, or NoRun
    sRaised,      \* the exception that ended that cell, or "none"
    sMismatch,    \* some run paired an attack with a sample of the other dataset
    sPos,         \* index in SharedOrder of the next cell from the top
    sLinear,      \* the cells executed so far are a prefix of SharedOrder
    \* ---- kernels of notebook 04 started one after the other (SpecRerun) ----
    cwd0,         \* the working directory every kernel starts in
    kernel,       \* number of kernels started so far
    completed,    \* some earlier kernel executed every cell from the top, without exception
    \* ---- the attribution loop of notebook 06 (SpecExplain) ----
    eClasses,     \* tr.classes, the sorted labels of the training set
    eSize,        \* x.size, the number of features of the sample
    ePc,          \* position inside the attribution cell
    eI,           \* index in Explainers of the explainer of this iteration
    eK,           \* index in eClasses of the next class of the class loop
    eAttr,        \* attr: its rows and, for each row, the number of assignments to it
    attributions, \* the dictionary `attributions`: an array for each key it has
    eRaised,      \* the exception that ended the cell, or "none"
    \* ---- the split of the blob dataset (SpecSplit) ----
    permutation,  \* the shuffle of the samples that random_state produces
    splitPc,      \* position inside the data cell
    tr_val,       \* the samples of tr_val (positions in `dataset`)
    ts,           \* the samples of ts
    tr,           \* the samples of tr
    val,          \* the samples of val
    \* ---- the poisoning cells (SpecPoison) ----
    heap,         \* the classifier objects: for each, the number of poisoning points
                  \* in the data it was last fitted on and the object it was copied from
    clean_clf,    \* the object clean_clf is bound to, or NoObject
    poisoned_clf, \* the object poisoned_clf is bound to, or NoObject
    pois_ds,      \* the number of points of pois_ds, or NoPoints
    pLists,       \* the names, among those of the four lists below, that are bound
    n_poisoning_samples, \* the budgets
    poisoned_clfs,   \* the list poisoned_clfs (objects)
    test_accuracies, \* the list test_accuracies (the object each accuracy is of)
    sec_evals,    \* the list sec_evals (the object each curve is of)
    pPc,          \* the loop being executed, or "idle"
    pI,           \* index of the next iteration of that loop
    pRaised,      \* the exception that ended the last cell, or "none"
    pExecs,       \* number of cell executions so far
    pFitOnClean,  \* some fit on poisoned data was called on the object of clean_clf
    pPlotted,     \* the classifiers of the last decision-region figure, panel by panel
    \* ---- the prototypes of one test sample (SpecProto) ----
    infl,         \* infl[ts_idx, :], the influence of each training sample
    infl_argsort, \* infl_argsort[ts_idx, :]
    tr_top,       \* tr_top
    plotted,      \* the training indices plotted, left to right
    protoPc,      \* position in the prototype cell
    \* ---- the figures of notebook 06 (SpecPlots) ----
    fNumClasses,  \* tr.num_classes
    fCell,        \* the cell that created the figure `fig`
    fPc,          \* position in the plotting cell
    fI,           \* i of the outer loop
    fJ,           \* position of the inner loop
    attr,         \* attr, the attributions of the current explainer
    th,           \* th, or NoThreshold
    panels        \* the subplots of `fig`, in the order they were made

bootVars == <<importable, bNb, bPc, bImport, bInstall, bFallback>>

sessVars == <<cwd, fs, cuda, MODEL_ID, bound, cell, pc, raised, pos, linear,
              clones, cloneFailed, dlOk, dlCalls, dlFailed, mapLocation, allOk>>

dataVars == <<dNb, dRaw, dTr, dVal, dTs, dNmz, dLast, dRan, dAgain>>

attackVars == <<aGrad, aBoundary, aPc, aX, aSeq, aPred, aPredAdv>>

textVars == <<tCuda, tCell, tPc, tKind, tDevice, tRaised, tPredAtEntry>>

nameVars == <<nNb, nPos, nBound, nSkipped, nErrors>>

shareVars == <<sBind, sWriter, sLast, sRun, sRaised, sMismatch, sPos, sLinear>>

runVars == <<cwd0, kernel, completed>>

explVars == <<eClasses, eSize, ePc, eI, eK, eAttr, attributions, eRaised>>

splitVars == <<permutation, splitPc, tr_val, ts, tr, val>>

poisVars == <<heap, clean_clf, poisoned_clf, pois_ds, pLists, n_poisoning_samples,
              poisoned_clfs, test_accuracies, sec_evals, pPc, pI, pRaised, pExecs,
              pFitOnClean, pPlotted>>

protoVars == <<infl, infl_argsort, tr_top, plotted, protoPc>>

figVars == <<fNumClasses, fCell, fPc, fI, fJ, attr, th, panels>>

vars == <<bootVars, sessVars, dataVars, attackVars, textVars, nameVars, shareVars, runVars, explVars, splitVars, poisVars, protoVars, figVars>>

\* the value of each group of variables under a specification that does not use it
BootIdle ==
    /\ importable = {} /\ bNb = "none" /\ bPc = 0
    /\ bImport = <<>> /\ bInstall = {} /\ bFallback = {}

SessIdle ==
    /\ cwd = <<>> /\ fs = {} /\ cuda = FALSE /\ MODEL_ID = "unset" /\ bound = {}
    /\ cell = "none" /\ pc = 0 /\ raised = "none" /\ pos = 0 /\ linear = FALSE
    /\ clones = 0 /\ cloneFailed = FALSE /\ dlOk = <<>> /\ dlCalls = {}
    /\ dlFailed = FALSE /\ mapLocation = "none" /\ allOk = FALSE

\* a name of a dataset that no cell has bound yet (a bound dataset has rows)
Unbound == <<>>
NoNmz == [min |-> <<>>, max |-> <<>>]

DataIdle ==
    /\ dNb = "none" /\ dRaw = <<>> /\ dTr = Unbound /\ dVal = Unbound
    /\ dTs = Unbound /\ dNmz = NoNmz /\ dLast = "none"
    /\ dRan = {} /\ dAgain = {}

\* a prediction that has not been made yet
NoLabel == -1

AttackIdle ==
    /\ aGrad = <<>> /\ aBoundary = 0 /\ aPc = "none" /\ aX = 0 /\ aSeq = <<>>
    /\ aPred = NoLabel /\ aPredAdv = NoLabel

TextIdle ==
    /\ tCuda = FALSE /\ tCell = "none" /\ tPc = 0 /\ tKind = <<>>
    /\ tDevice = "none" /\ tRaised = "none" /\ tPredAtEntry = "none"

NameIdle ==
    /\ nNb = "none" /\ nPos = 0 /\ nBound = {} /\ nSkipped = 0 /\ nErrors = {}


\* deepest working directory in which a cell is still executed
MaxDepth == 3

\* rows of a dataset as loaded
NSamples == 2

\* rows kept by the `[:100, :]` subsets
SubsetRows == 1

NoRun == [attack |-> "none", sample |-> "none", clf |-> "none", data |-> "none"]

NoArray == [rows |-> <<>>, writes |-> <<>>]

ExplIdle ==
    /\ eClasses = <<>> /\ eSize = 0 /\ ePc = "none" /\ eI = 0 /\ eK = 0
    /\ eAttr = NoArray /\ attributions = <<>> /\ eRaised = "none"

SplitIdle ==
    /\ permutation = <<>> /\ splitPc = "none"
    /\ tr_val = {} /\ ts = {} /\ tr = {} /\ val = {}

NoObject == 0
NoPoints == -1

PoisIdle ==
    /\ heap = <<>> /\ clean_clf = NoObject /\ poisoned_clf = NoObject
    /\ pois_ds = NoPoints /\ pLists = {} /\ n_poisoning_samples = <<>>
    /\ poisoned_clfs = <<>> /\ test_accuracies = <<>> /\ sec_evals = <<>>
    /\ pPc = "none" /\ pI = 0 /\ pRaised = "none" /\ pExecs = 0
    /\ pFitOnClean = FALSE /\ pPlotted = <<>>

ProtoIdle ==
    /\ infl = <<>> /\ infl_argsort = <<>> /\ tr_top = <<>> /\ plotted = <<>>
    /\ protoPc = "none"

NoThreshold == -1

FigIdle ==
    /\ fNumClasses = 0 /\ fCell = "none" /\ fPc = "none" /\ fI = 0 /\ fJ = 0
    /\ attr = <<>> /\ th = NoThreshold /\ panels = <<>>

RunIdle == cwd0 = <<>> /\ kernel = 0 /\ completed = FALSE

ShareIdle ==
    /\ sBind = <<>> /\ sWriter = <<>> /\ sLast = "none" /\ sRun = NoRun
    /\ sRaised = "none" /\ sMismatch = FALSE /\ sPos = 0 /\ sLinear = FALSE

(***************************************************************************)
(* Bootstrap cells                                                         *)
(***************************************************************************)
Packages == {"secml", "foolbox", "robustbench", "transformers", "shap", "datasets"}

\* notebook 04, lines 26-39: three try/except blocks, in this order
Nb04Packages == <<"secml", "foolbox", "robustbench">>

\* notebook 06, lines 37-41: five unconditional %pip install lines, in this order
Nb06Installs == <<"secml", "foolbox", "transformers", "shap", "datasets">>

\* notebook 06, lines 43-44: the imports that follow the installs
Nb06Imports == <<"secml", "foolbox">>

\* poisoning notebook, lines 40-45: one try block with two imports, one except
\* branch with two installs
Nb05Imports == <<"secml", "foolbox">>

NoImports == [p \in Packages |-> "none"]

\* `import p`: succeeds exactly when the package is in the environment
ImportOutcome(p) == IF p \in importable THEN "ok" ELSE "fail"

\* `%pip install p`: a shell command; it may fail (no network) and never raises
PipInstall(p) ==
    \E ok \in BOOLEAN :
        importable' = IF ok THEN importable \cup {p} ELSE importable

InitBoot ==
    /\ importable \in SUBSET Packages
    /\ bNb \in {"nb04", "nb06", "nb05"}
    /\ bPc = 1
    /\ bImport = NoImports
    /\ bInstall = {}
    /\ bFallback = {}
    /\ SessIdle /\ DataIdle /\ AttackIdle /\ TextIdle /\ NameIdle
    /\ ShareIdle
    /\ RunIdle
    /\ ExplIdle
    /\ SplitIdle
    /\ PoisIdle
    /\ ProtoIdle
    /\ FigIdle

\* ---- notebook 04: try: import p / except ImportError: %pip install p ----
\* positions: 2k-1 = `import` of package k, 2k = its except-branch, 7 = past the try blocks
Nb04Pkg == Nb04Packages[(bPc + 1) \div 2]

Nb04TryImport ==
    /\ bNb = "nb04" /\ bPc \in {1, 3, 5}
    /\ bImport' = [bImport EXCEPT ![Nb04Pkg] = ImportOutcome(Nb04Pkg)]
    /\ bPc' = bPc + 1
    /\ UNCHANGED <<importable, bNb, bInstall, bFallback>>
    /\ UNCHANGED <<sessVars, dataVars, attackVars, textVars, nameVars, shareVars, runVars, explVars, splitVars, poisVars, protoVars, figVars>>

Nb04InstallAlways(p) == TRUE

\* line 28, 33, 38: `except ImportError:` is entered only when the import raised
Nb04ExceptImportError(p) == bImport[p] = "fail"

Nb04PipInstall ==
    /\ bNb = "nb04" /\ bPc \in {2, 4, 6}
    /\ Nb04ExceptImportError(Nb04Pkg)
    /\ PipInstall(Nb04Pkg)
    /\ bInstall' = bInstall \cup {Nb04Pkg}
    /\ bFallback' = bFallback \cup {Nb04Pkg}
    /\ bPc' = bPc + 1
    /\ UNCHANGED <<bNb, bImport>>
    /\ UNCHANGED <<sessVars, dataVars, attackVars, textVars, nameVars, shareVars, runVars, explVars, splitVars, poisVars, protoVars, figVars>>

Nb04NoExcept ==
    /\ bNb = "nb04" /\ bPc \in {2, 4, 6}
    /\ ~Nb04ExceptImportError(Nb04Pkg)
    /\ bPc' = bPc + 1
    /\ UNCHANGED <<importable, bNb, bImport, bInstall, bFallback>>
    /\ UNCHANGED <<sessVars, dataVars, attackVars, textVars, nameVars, shareVars, runVars, explVars, splitVars, poisVars, protoVars, figVars>>

\* ---- notebook 06: %pip install x5, then import secml, import foolbox ----
\* positions 1..5 = installs, 6..7 = imports, 8 = done, 9 = ImportError uncaught
Nb06PipInstall ==
    /\ bNb = "nb06" /\ bPc \in 1..5
    /\ PipInstall(Nb06Installs[bPc])
    /\ bInstall' = bInstall \cup {Nb06Installs[bPc]}
    /\ bPc' = bPc + 1
    /\ UNCHANGED <<bNb, bImport, bFallback>>
    /\ UNCHANGED <<sessVars, dataVars, attackVars, textVars, nameVars, shareVars, runVars, explVars, splitVars, poisVars, protoVars, figVars>>

Nb06Import ==
    /\ bNb = "nb06" /\ bPc \in 6..7
    /\ LET p == Nb06Imports[bPc - 5] IN
        /\ bImport' = [bImport EXCEPT ![p] = ImportOutcome(p)]
        /\ bPc' = IF ImportOutcome(p) = "ok" THEN bPc + 1 ELSE 9
    /\ UNCHANGED <<importable, bNb, bInstall, bFallback>>
    /\ UNCHANGED <<sessVars, dataVars, attackVars, textVars, nameVars, shareVars, runVars, explVars, splitVars, poisVars, protoVars, figVars>>

\* ---- poisoning notebook: upgrade, then try: import, import / except: install, install ----
\* positions 1 = upgrade, 2..3 = imports in the try, 4..5 = installs in the except, 6 = done
Nb05Upgrade ==
    /\ bNb = "nb05" /\ bPc = 1
    /\ PipInstall("secml")
    /\ bInstall' = bInstall \cup {"secml"}
    /\ bPc' = 2
    /\ UNCHANGED <<bNb, bImport, bFallback>>
    /\ UNCHANGED <<sessVars, dataVars, attackVars, textVars, nameVars, shareVars, runVars, explVars, splitVars, poisVars, protoVars, figVars>>

Nb05TryImport ==
    /\ bNb = "nb05" /\ bPc \in 2..3
    /\ LET p == Nb05Imports[bPc - 1] IN
        /\ bImport' = [bImport EXCEPT ![p] = ImportOutcome(p)]
        /\ bPc' = IF ImportOutcome(p) = "fail" THEN 4
                  ELSE IF bPc = 2 THEN 3 ELSE 6
    /\ UNCHANGED <<importable, bNb, bInstall, bFallback>>
    /\ UNCHANGED <<sessVars, dataVars, attackVars, textVars, nameVars, shareVars, runVars, explVars, splitVars, poisVars, protoVars, figVars>>

Nb05ExceptInstall ==
    /\ bNb = "nb05" /\ bPc \in 4..5
    /\ LET p == Nb05Imports[bPc - 3] IN
        /\ PipInstall(p)
        /\ bInstall' = bInstall \cup {p}
        /\ bFallback' = bFallback \cup {p}
    /\ bPc' = bPc + 1
    /\ UNCHANGED <<bNb, bImport>>
    /\ UNCHANGED <<sessVars, dataVars, attackVars, textVars, nameVars, shareVars, runVars, explVars, splitVars, poisVars, protoVars, figVars>>

BootDone ==
    \/ bNb = "nb04" /\ bPc = 7
    \/ bNb = "nb06" /\ bPc \in {8, 9}
    \/ bNb = "nb05" /\ bPc = 6

\* the user executes a bootstrap cell again (of this or another notebook);
\* the environment keeps what was installed
ExecuteBootstrapCell ==
    /\ BootDone
    /\ bNb' \in {"nb04", "nb06", "nb05"}
    /\ bPc' = 1
    /\ bImport' = NoImports
    /\ bInstall' = {}
    /\ bFallback' = {}
    /\ UNCHANGED importable
    /\ UNCHANGED <<sessVars, dataVars, attackVars, textVars, nameVars, shareVars, runVars, explVars, splitVars, poisVars, protoVars, figVars>>

NextBoot ==
    \/ Nb04TryImport
    \/ Nb04PipInstall
    \/ Nb04NoExcept
    \/ Nb06PipInstall
    \/ Nb06Import
    \/ Nb05Upgrade
    \/ Nb05TryImport
    \/ Nb05ExceptInstall
    \/ ExecuteBootstrapCell

SpecBoot == InitBoot /\ [][NextBoot]_vars

(***************************************************************************)
(* A session of notebook 04: the cells that change the working directory,  *)
(* the file system or MODEL_ID, and the cells that bind a name those cells *)
(* read.  The installs of the bootstrap cell (lines 26-39) are SpecBoot's; *)
(* here the bootstrap cell starts at line 41.                              *)
(***************************************************************************)
Repo == "unica_mlsec_labs"

\* the three cached weight files (lines 89, 369, 612)
KwtaFile == "kwta_spresnet18_0.1_cifar_adv.pth"
DistilledFile == "mnist_distilled.pt"
TeacherFile == "mnist_teacher.pt"
WeightFiles == {KwtaFile, DistilledFile, TeacherFile}

\* the Google Drive keys (lines 86, 366, 609)
KwtaId == "1Af_owmMvg1LxjITLE1gFUmPx5idogeTP"
DistilledId == "1s7Kfa2Bs5nY2zLd6dVAxUqNbCNQhPYxs"
TeacherId == "1qmjepc4k_o4BIqCvUJgwg-K19CaovOrQ"

ModelCells == {"kwta", "distilled", "teacher"}

\* the cells of this specification in notebook order
CellOrder == <<"bootstrap", "kwta", "cifar", "accuracy",
               "distilled", "mnist", "pgd", "teacher">>
Cells == {CellOrder[i] : i \in 1..Len(CellOrder)}

\* the steps of each cell, in statement order
Steps(c) ==
    CASE c = "bootstrap" -> <<"import_os", "if_models", "clone", "chdir">>
      [] c = "kwta"      -> <<"imports", "mkdir", "model_id", "path", "exists",
                              "download", "construct", "load", "wrap">>
      [] c = "distilled" -> <<"imports", "model_id", "construct", "path", "exists",
                              "download", "load", "wrap">>
      [] c = "teacher"   -> <<"model_id", "construct", "path", "exists",
                              "download", "load", "wrap", "tail">>
      [] OTHER           -> <<"body">>

Label == IF cell \in Cells /\ pc \in 1..Len(Steps(cell)) THEN Steps(cell)[pc] ELSE "none"

\* position of step `l` in the running cell
At(l) == CHOOSE i \in 1..Len(Steps(cell)) : Steps(cell)[i] = l

\* the weight file of a model cell, relative to the working directory
FileOf(c) ==
    CASE c = "kwta" -> KwtaFile
      [] c = "distilled" -> DistilledFile
      [] c = "teacher" -> TeacherFile
PathOf(c) == <<"pretrained", FileOf(c)>>

\* os.path.exists(rel)
Exists(rel) == (cwd \o rel) \in fs

\* the names a step reads that another statement must have bound
\* ("libs" stands for torch, download_gdrive, CArray and CClassifierPyTorch,
\* which are always imported together)
Reads(c, l) ==
    CASE l \in {"path", "exists"} -> {"os"}
      [] l \in {"download", "load", "wrap"} -> {"libs"}
      [] l = "construct" -> IF c = "kwta" THEN {"SparseResNet18"} ELSE {"MNIST9Layer"}
      [] l = "tail" -> {"ts", "clf", "metric"}
      [] OTHER -> {}

Goto(k) == pc' = k /\ UNCHANGED <<cell, raised, allOk>>
Finish(exc) == cell' = "idle" /\ pc' = 0 /\ raised' = exc /\ allOk' = (allOk /\ exc = "none")

InitFs ==
    \/ fs = {<<>>} /\ cwd = <<>>
    \/ \E cached \in {{}} \cup {{<<Repo, "pretrained">>} \cup
                                {<<Repo, "pretrained", f>> : f \in F} : F \in SUBSET WeightFiles} :
          /\ fs = {<<>>, <<Repo>>, <<Repo, "models">>} \cup cached
          /\ cwd \in {<<>>, <<Repo>>}

\* a fresh kernel
InitSession ==
    /\ InitFs
    /\ cuda \in BOOLEAN
    /\ MODEL_ID = "unset"
    /\ bound = {}
    /\ cell = "idle" /\ pc = 0 /\ raised = "none"
    /\ pos = 1 /\ linear = TRUE
    /\ clones = 0 /\ cloneFailed = FALSE
    /\ dlOk = [f \in WeightFiles |-> 0] /\ dlCalls = {} /\ dlFailed = FALSE
    /\ mapLocation = "none"
    /\ allOk = TRUE

Init ==
    /\ InitSession
    /\ BootIdle /\ DataIdle /\ AttackIdle /\ TextIdle /\ NameIdle
    /\ ShareIdle
    /\ RunIdle
    /\ ExplIdle
    /\ SplitIdle
    /\ PoisIdle
    /\ ProtoIdle
    /\ FigIdle

\* the user executes a cell
ExecuteCell(c) ==
    /\ cell = "idle"
    /\ Len(cwd) < MaxDepth
    /\ cell' = c /\ pc' = 1 /\ raised' = "none"
    /\ linear' = (linear /\ pos <= Len(CellOrder) /\ CellOrder[pos] = c)
    /\ pos' = IF linear' THEN pos + 1 ELSE 0
    /\ UNCHANGED <<cwd, fs, cuda, MODEL_ID, bound, clones, cloneFailed,
                   dlOk, dlCalls, dlFailed, mapLocation, allOk, bootVars, dataVars, attackVars, textVars, nameVars, shareVars, runVars, explVars, splitVars, poisVars, protoVars, figVars>>

\* a step that reads a name no executed statement has bound
NameError ==
    /\ Label # "none"
    /\ ~(Reads(cell, Label) \subseteq bound)
    /\ Finish("NameError")
    /\ UNCHANGED <<cwd, fs, cuda, MODEL_ID, bound, pos, linear, clones, cloneFailed,
                   dlOk, dlCalls, dlFailed, mapLocation, bootVars, dataVars, attackVars, textVars, nameVars, shareVars, runVars, explVars, splitVars, poisVars, protoVars, figVars>>

Ready(l) == Label = l /\ Reads(cell, l) \subseteq bound

\* ---- bootstrap cell, lines 41-45 ----
BootImportOs ==
    /\ Ready("import_os")
    /\ bound' = bound \cup {"os"}
    /\ Goto(pc + 1)
    /\ UNCHANGED <<cwd, fs, cuda, MODEL_ID, pos, linear, clones, cloneFailed,
                   dlOk, dlCalls, dlFailed, mapLocation, bootVars, dataVars, attackVars, textVars, nameVars, shareVars, runVars, explVars, splitVars, poisVars, protoVars, figVars>>

IfNotModelsAlways == TRUE

RepoMissing == ~((cwd \o <<"unica_mlsec_labs">>) \in fs)

\* line 42
IfNotModels == ~Exists(<<"models">>)

IfNotRepoAlways == TRUE

\* line 43
IfNotRepo == ~Exists(<<Repo>>)

BootIfModels ==
    /\ Ready("if_models")
    /\ IF ~IfNotModels THEN Finish("none")
       ELSE IF IfNotRepo THEN Goto(At("clone"))
       ELSE Goto(At("chdir"))
    /\ UNCHANGED <<cwd, fs, cuda, MODEL_ID, bound, pos, linear, clones, cloneFailed,
                   dlOk, dlCalls, dlFailed, mapLocation, bootVars, dataVars, attackVars, textVars, nameVars, shareVars, runVars, explVars, splitVars, poisVars, protoVars, figVars>>

\* line 44: a shell command, it does not raise; git refuses an existing directory
GitClone ==
    /\ Ready("clone")
    /\ \E ok \in BOOLEAN :
        IF ok /\ ~Exists(<<Repo>>)
        THEN /\ fs' = fs \cup {cwd \o <<Repo>>, cwd \o <<Repo, "models">>}
             /\ clones' = clones + 1
             /\ UNCHANGED cloneFailed
        ELSE /\ cloneFailed' = TRUE
             /\ UNCHANGED <<fs, clones>>
    /\ Goto(pc + 1)
    /\ UNCHANGED <<cwd, cuda, MODEL_ID, bound, pos, linear,
                   dlOk, dlCalls, dlFailed, mapLocation, bootVars, dataVars, attackVars, textVars, nameVars, shareVars, runVars, explVars, splitVars, poisVars, protoVars, figVars>>

\* line 45
Chdir ==
    /\ Ready("chdir")
    /\ IF Exists(<<Repo>>)
       THEN cwd' = cwd \o <<Repo>> /\ Finish("none")
       ELSE UNCHANGED cwd /\ Finish("FileNotFoundError")
    /\ UNCHANGED <<fs, cuda, MODEL_ID, bound, pos, linear, clones, cloneFailed,
                   dlOk, dlCalls, dlFailed, mapLocation, bootVars, dataVars, attackVars, textVars, nameVars, shareVars, runVars, explVars, splitVars, poisVars, protoVars, figVars>>

\* ---- model cells: lines 75-108 (k-WTA), 357-377 (distilled), 609-653 (teacher) ----
\* lines 75-80: the library imports come first, `from models.kwta import` last;
\* lines 357-364: `from models.distillation import` comes first.
\* `models` is found only in the working directory.
Imports ==
    /\ Ready("imports")
    /\ IF Exists(<<"models">>)
       THEN /\ bound' = bound \cup {"os", "libs"} \cup
                        (IF cell = "kwta" THEN {"SparseResNet18"} ELSE {"MNIST9Layer"})
            /\ Goto(pc + 1)
       ELSE /\ bound' = bound \cup (IF cell = "kwta" THEN {"os", "libs"} ELSE {})
            /\ Finish("ImportError")
    /\ UNCHANGED <<cwd, fs, cuda, MODEL_ID, pos, linear, clones, cloneFailed,
                   dlOk, dlCalls, dlFailed, mapLocation, bootVars, dataVars, attackVars, textVars, nameVars, shareVars, runVars, explVars, splitVars, poisVars, protoVars, figVars>>

NoMkdir == {}

\* lines 82-83: the directory os.mkdir("pretrained") creates, if any
MkdirPretrained == IF ~Exists(<<"pretrained">>) THEN {cwd \o <<"pretrained">>} ELSE {}

Mkdir ==
    /\ Ready("mkdir")
    /\ fs' = fs \cup MkdirPretrained
    /\ Goto(pc + 1)
    /\ UNCHANGED <<cwd, cuda, MODEL_ID, bound, pos, linear, clones, cloneFailed,
                   dlOk, dlCalls, dlFailed, mapLocation, bootVars, dataVars, attackVars, textVars, nameVars, shareVars, runVars, explVars, splitVars, poisVars, protoVars, figVars>>

StaleModelId(c) == IF c = "teacher" THEN MODEL_ID ELSE IF c = "kwta" THEN KwtaId ELSE DistilledId

\* lines 86, 366, 609: the value each model cell assigns to MODEL_ID
ModelIdOf(c) ==
    CASE c = "kwta" -> KwtaId
      [] c = "distilled" -> DistilledId
      [] c = "teacher" -> TeacherId

AssignModelId ==
    /\ Ready("model_id")
    /\ MODEL_ID' = ModelIdOf(cell)
    /\ Goto(pc + 1)
    /\ UNCHANGED <<cwd, fs, cuda, bound, pos, linear, clones, cloneFailed,
                   dlOk, dlCalls, dlFailed, mapLocation, bootVars, dataVars, attackVars, textVars, nameVars, shareVars, runVars, explVars, splitVars, poisVars, protoVars, figVars>>

\* lines 96, 368, 611 (the model object) and 89, 369, 612 (os.path.join)
Construct ==
    /\ Ready("construct") \/ Ready("path")
    /\ Goto(pc + 1)
    /\ UNCHANGED <<cwd, fs, cuda, MODEL_ID, bound, pos, linear, clones, cloneFailed,
                   dlOk, dlCalls, dlFailed, mapLocation, bootVars, dataVars, attackVars, textVars, nameVars, shareVars, runVars, explVars, splitVars, poisVars, protoVars, figVars>>

DownloadAlways(c) == TRUE

\* lines 90, 370, 613: `if not os.path.exists(path):`
IfNotExists(c) == ~Exists(PathOf(c))

CheckExists ==
    /\ Ready("exists")
    /\ IF IfNotExists(cell) THEN Goto(At("download")) ELSE Goto(At("download") + 1)
    /\ UNCHANGED <<cwd, fs, cuda, MODEL_ID, bound, pos, linear, clones, cloneFailed,
                   dlOk, dlCalls, dlFailed, mapLocation, bootVars, dataVars, attackVars, textVars, nameVars, shareVars, runVars, explVars, splitVars, poisVars, protoVars, figVars>>

\* lines 92, 371, 614: download_gdrive(MODEL_ID, path) writes the file, or fails
\* (no network; no directory to write into) and ends the cell
DownloadGdrive ==
    /\ Ready("download")
    /\ dlCalls' = dlCalls \cup {<<FileOf(cell), MODEL_ID>>}
    /\ \E ok \in BOOLEAN :
        IF ok /\ Exists(<<"pretrained">>)
        THEN /\ fs' = fs \cup {cwd \o PathOf(cell)}
             /\ dlOk' = [dlOk EXCEPT ![FileOf(cell)] = @ + 1]
             /\ Goto(pc + 1)
             /\ UNCHANGED dlFailed
        ELSE /\ dlFailed' = TRUE
             /\ Finish("DownloadError")
             /\ UNCHANGED <<fs, dlOk>>
    /\ UNCHANGED <<cwd, cuda, MODEL_ID, bound, pos, linear, clones, cloneFailed,
                   mapLocation, bootVars, dataVars, attackVars, textVars, nameVars, shareVars, runVars, explVars, splitVars, poisVars, protoVars, figVars>>

MapToCuda(c) == "cuda"

\* lines 99-102: map_location='cpu' without CUDA, torch.load's default with it;
\* lines 372, 615: torch.device('cuda' if torch.cuda.is_available() else 'cpu')
MapLocationOf(c) ==
    IF c = "kwta" THEN (IF ~cuda THEN "cpu" ELSE "default")
    ELSE (IF cuda THEN "cuda" ELSE "cpu")

TorchLoad ==
    /\ Ready("load")
    /\ IF Exists(PathOf(cell))
       THEN mapLocation' = MapLocationOf(cell) /\ Goto(pc + 1)
       ELSE UNCHANGED mapLocation /\ Finish("FileNotFoundError")
    /\ UNCHANGED <<cwd, fs, cuda, MODEL_ID, bound, pos, linear, clones, cloneFailed,
                   dlOk, dlCalls, dlFailed, bootVars, dataVars, attackVars, textVars, nameVars, shareVars, runVars, explVars, splitVars, poisVars, protoVars, figVars>>

\* lines 105-108, 373-377: clf is bound; lines 616-620: teacher_clf is bound
Wrap ==
    /\ Ready("wrap")
    /\ bound' = bound \cup (IF cell = "teacher" THEN {"teacher_clf"} ELSE {"clf"})
    /\ IF pc = Len(Steps(cell)) THEN Finish("none") ELSE Goto(pc + 1)
    /\ UNCHANGED <<cwd, fs, cuda, MODEL_ID, pos, linear, clones, cloneFailed,
                   dlOk, dlCalls, dlFailed, mapLocation, bootVars, dataVars, attackVars, textVars, nameVars, shareVars, runVars, explVars, splitVars, poisVars, protoVars, figVars>>

\* lines 624-653: the transfer attack reads ts, clf and metric
TeacherTail ==
    /\ Ready("tail")
    /\ Finish("none")
    /\ UNCHANGED <<cwd, fs, cuda, MODEL_ID, bound, pos, linear, clones, cloneFailed,
                   dlOk, dlCalls, dlFailed, mapLocation, bootVars, dataVars, attackVars, textVars, nameVars, shareVars, runVars, explVars, splitVars, poisVars, protoVars, figVars>>

\* ---- the cells that bind ts and metric ----
\* lines 120-127 and 389-396 bind ts; line 141 binds metric before clf and ts are
\* read (142); line 423 reads ts and 425 clf before line 438 binds metric
DataCell ==
    /\ Ready("body")
    /\ IF cell \in {"cifar", "mnist"} THEN bound' = bound \cup {"ts"} /\ Finish("none")
       ELSE IF cell = "accuracy"
            THEN /\ bound' = bound \cup {"metric"}
                 /\ Finish(IF {"clf", "ts"} \subseteq bound THEN "none" ELSE "NameError")
       ELSE IF {"clf", "ts"} \subseteq bound
            THEN bound' = bound \cup {"metric"} /\ Finish("none")
            ELSE UNCHANGED bound /\ Finish("NameError")
    /\ UNCHANGED <<cwd, fs, cuda, MODEL_ID, pos, linear, clones, cloneFailed,
                   dlOk, dlCalls, dlFailed, mapLocation, bootVars, dataVars, attackVars, textVars, nameVars, shareVars, runVars, explVars, splitVars, poisVars, protoVars, figVars>>

Next ==
    \/ \E c \in Cells : ExecuteCell(c)
    \/ NameError
    \/ BootImportOs
    \/ BootIfModels
    \/ GitClone
    \/ Chdir
    \/ Imports
    \/ Mkdir
    \/ AssignModelId
    \/ Construct
    \/ CheckExists
    \/ DownloadGdrive
    \/ TorchLoad
    \/ Wrap
    \/ TeacherTail
    \/ DataCell

Spec == Init /\ [][Next]_vars

(***************************************************************************)
(* SpecRerun: notebook 04 executed in several kernels one after the other, *)
(* all started in the same working directory.  The file system survives a  *)
(* kernel; the names, the working directory and the histories of the       *)
(* clone and download calls start afresh with each kernel.                 *)
(***************************************************************************)

\* kernels started in one behaviour
MaxKernels == 2

InitRerun ==
    /\ InitSession
    /\ cwd0 = cwd
    /\ kernel = 1
    /\ completed = FALSE
    /\ BootIdle /\ DataIdle /\ AttackIdle /\ TextIdle /\ NameIdle /\ ShareIdle
    /\ ExplIdle
    /\ SplitIdle
    /\ PoisIdle
    /\ ProtoIdle
    /\ FigIdle

\* every cell of CellOrder has been executed once, from the top, and none raised
RunComplete == cell = "idle" /\ linear /\ pos = Len(CellOrder) + 1 /\ allOk

\* the user restarts the kernel: the process and its names are gone, the files stay
RestartKernel ==
    /\ cell = "idle"
    /\ kernel < MaxKernels
    /\ kernel' = kernel + 1
    /\ completed' = (completed \/ RunComplete)
    /\ cwd' = cwd0
    /\ MODEL_ID' = "unset"
    /\ bound' = {}
    /\ pc' = 0 /\ raised' = "none"
    /\ pos' = 1 /\ linear' = TRUE
    /\ clones' = 0 /\ cloneFailed' = FALSE
    /\ dlOk' = [f \in WeightFiles |-> 0] /\ dlCalls' = {} /\ dlFailed' = FALSE
    /\ mapLocation' = "none"
    /\ allOk' = TRUE
    /\ UNCHANGED <<fs, cuda, cell, cwd0,
                   bootVars, dataVars, attackVars, textVars, nameVars, shareVars, explVars, splitVars, poisVars, protoVars, figVars>>

NextRerun ==
    \/ Next
    \/ RestartKernel

SpecRerun == InitRerun /\ [][NextRerun]_vars


(***************************************************************************)
(* The data-loading cells (SpecData).  A dataset is the matrix of its      *)
(* features X: a sequence of rows, a value being a rational <<n, d>> in    *)
(* lowest terms with d > 0.  What the loaders return is fixed when the     *)
(* kernel starts (dRaw); image datasets have one pixel per row, the blob   *)
(* datasets n_features columns; val and ts of the poisoning notebook are   *)
(* one sample each.                                                        *)
(***************************************************************************)
\* raw pixel values of the image files
PixelValues == {0, 1, 128, 254, 255}

\* raw feature values of the blobs
BlobValues == {-1, 0, 1}

\* poisoning notebook, line 60
n_features == 2

Abs(x) == IF x < 0 THEN -x ELSE x

RECURSIVE GCD(_, _)
GCD(a, b) == IF b = 0 THEN a ELSE GCD(b, a % b)

\* the rational n/d (d # 0) in lowest terms with a positive denominator
Rat(n, d) ==
    LET g == GCD(Abs(n), Abs(d))
        s == IF d < 0 THEN -1 ELSE 1
    IN  <<(s * n) \div g, (s * d) \div g>>

RSub(a, b) == Rat(a[1] * b[2] - b[1] * a[2], a[2] * b[2])
RDiv(a, b) == Rat(a[1] * b[2], a[2] * b[1])
RLe(a, b) == a[1] * b[2] <= b[1] * a[2]
InUnit(a) == 0 <= a[1] /\ a[1] <= a[2]

\* a loader returns floats
AsFloat(m) == [i \in 1..Len(m) |-> [j \in 1..Len(m[i]) |-> <<m[i][j], 1>>]]

NoRescale(m) == m

\* x / 255 / 255
Div255Twice(m) ==
    [i \in 1..Len(m) |-> [j \in 1..Len(m[i]) |-> RDiv(m[i][j], <<255 * 255, 1>>)]]

\* `X /= 255` (notebook 04 lines 127, 396; notebook 06 lines 129-130, 406-407)
Div255(m) == [i \in 1..Len(m) |-> [j \in 1..Len(m[i]) |-> RDiv(m[i][j], <<255, 1>>)]]

\* `ts[:100, :]` (notebook 04 lines 124, 393)
Subset(m) == SubSeq(m, 1, IF Len(m) < SubsetRows THEN Len(m) ELSE SubsetRows)

ColMin(m, j) == CHOOSE v \in {m[i][j] : i \in 1..Len(m)} :
                    \A i \in 1..Len(m) : RLe(v, m[i][j])
ColMax(m, j) == CHOOSE v \in {m[i][j] : i \in 1..Len(m)} :
                    \A i \in 1..Len(m) : RLe(m[i][j], v)

\* CNormalizerMinMax.fit: the per-feature minimum and maximum
NmzFit(m) == [min |-> [j \in 1..Len(m[1]) |-> ColMin(m, j)],
              max |-> [j \in 1..Len(m[1]) |-> ColMax(m, j)]]

\* the matrix as it is
Untransformed(nmz, m) == m

\* CNormalizerMinMax.transform: (x - min) / (max - min) per feature, a constant
\* feature being divided by 1
NmzTransform(nmz, m) ==
    [i \in 1..Len(m) |-> [j \in 1..Len(m[i]) |->
        LET r == RSub(nmz.max[j], nmz.min[j])
        IN  RDiv(RSub(m[i][j], nmz.min[j]), IF r[1] = 0 THEN <<1, 1>> ELSE r)]]

\* the cell c is executed once more
Ran(c) ==
    /\ dRan' = dRan \cup {c}
    /\ dAgain' = (IF c \in dRan THEN dAgain \cup {c} ELSE dAgain)

Images == [1..NSamples -> [1..1 -> PixelValues]]
Blobs(rows) == [1..rows -> [1..n_features -> BlobValues]]

InitData ==
    /\ dNb \in {"nb04", "nb06", "nb05"}
    /\ \/ dNb = "nb04" /\ dRaw \in [cifar : Images, mnist : Images]
       \/ dNb = "nb06" /\ dRaw \in [train : Images, test : Images]
       \/ dNb = "nb05" /\ dRaw \in [tr : Blobs(NSamples), val : Blobs(1), ts : Blobs(1)]
    /\ dTr = Unbound /\ dVal = Unbound /\ dTs = Unbound /\ dNmz = NoNmz
    /\ dLast = "none" /\ dRan = {} /\ dAgain = {}
    /\ BootIdle /\ SessIdle /\ AttackIdle /\ TextIdle /\ NameIdle
    /\ ShareIdle
    /\ RunIdle
    /\ ExplIdle
    /\ SplitIdle
    /\ PoisIdle
    /\ ProtoIdle
    /\ FigIdle

\* notebook 04, lines 120-127
Nb04Cifar10Cell ==
    /\ dNb = "nb04"
    /\ dTs' = Div255(Subset(AsFloat(dRaw.cifar)))
    /\ dLast' = "cifar" /\ Ran("cifar")
    /\ UNCHANGED <<dNb, dRaw, dTr, dVal, dNmz, bootVars, sessVars, attackVars, textVars, nameVars, shareVars, runVars, explVars, splitVars, poisVars, protoVars, figVars>>

\* notebook 04, lines 389-396
Nb04MnistCell ==
    /\ dNb = "nb04"
    /\ dTs' = Div255(Subset(AsFloat(dRaw.mnist)))
    /\ dLast' = "mnist" /\ Ran("mnist")
    /\ UNCHANGED <<dNb, dRaw, dTr, dVal, dNmz, bootVars, sessVars, attackVars, textVars, nameVars, shareVars, runVars, explVars, splitVars, poisVars, protoVars, figVars>>

\* notebook 06, lines 116-130
Nb06MnistCell ==
    /\ dNb = "nb06"
    /\ dTr' = Div255(AsFloat(dRaw.train))
    /\ dTs' = Div255(AsFloat(dRaw.test))
    /\ dLast' = "mnist" /\ Ran("mnist")
    /\ UNCHANGED <<dNb, dRaw, dVal, dNmz, bootVars, sessVars, attackVars, textVars, nameVars, shareVars, runVars, explVars, splitVars, poisVars, protoVars, figVars>>

\* the rows of m at the increasing positions `keep`
Rows(m, keep) ==
    LET F[k \in 0..Len(m)] ==
            IF k = 0 THEN <<>>
            ELSE IF k \in keep THEN Append(F[k - 1], m[k]) ELSE F[k - 1]
    IN  F[Len(m)]

\* notebook 06, lines 395-407: only the samples of digits 5 and 9 are loaded;
\* labels are not modelled, so any non-empty choice of rows
Nb06Mnist59Cell ==
    /\ dNb = "nb06"
    /\ \E ktr \in SUBSET (1..NSamples) \ {{}}, kts \in SUBSET (1..NSamples) \ {{}} :
        /\ dTr' = Div255(Rows(AsFloat(dRaw.train), ktr))
        /\ dTs' = Div255(Rows(AsFloat(dRaw.test), kts))
    /\ dLast' = "mnist59" /\ Ran("mnist59")
    /\ UNCHANGED <<dNb, dRaw, dVal, dNmz, bootVars, sessVars, attackVars, textVars, nameVars, shareVars, runVars, explVars, splitVars, poisVars, protoVars, figVars>>

\* poisoning notebook, lines 58-93: tr, val and ts are samples of the blob
\* dataset; the normalizer is fitted on tr and applied to val and ts
Nb05DataCell ==
    /\ dNb = "nb05"
    /\ dNmz' = NmzFit(AsFloat(dRaw.tr))
    /\ dTr' = NmzTransform(dNmz', AsFloat(dRaw.tr))
    /\ dVal' = NmzTransform(dNmz', AsFloat(dRaw.val))
    /\ dTs' = NmzTransform(dNmz', AsFloat(dRaw.ts))
    /\ dLast' = "data" /\ Ran("data")
    /\ UNCHANGED <<dNb, dRaw, bootVars, sessVars, attackVars, textVars, nameVars, shareVars, runVars, explVars, splitVars, poisVars, protoVars, figVars>>

\* poisoning notebook, line 493: ts.X = nmz.fit_transform(ts.X)
Nb05Renormalize ==
    /\ dNb = "nb05"
    /\ dTs # Unbound
    /\ dNmz' = NmzFit(dTs)
    /\ dTs' = NmzTransform(dNmz', dTs)
    /\ dLast' = "seceval" /\ Ran("seceval")
    /\ UNCHANGED <<dNb, dRaw, dTr, dVal, bootVars, sessVars, attackVars, textVars, nameVars, shareVars, runVars, explVars, splitVars, poisVars, protoVars, figVars>>

NextData ==
    \/ Nb04Cifar10Cell
    \/ Nb04MnistCell
    \/ Nb06MnistCell
    \/ Nb06Mnist59Cell
    \/ Nb05DataCell
    \/ Nb05Renormalize

SpecData == InitData /\ [][NextData]_vars

(***************************************************************************)
(* SpecAttack: the loss-path cell of notebook 04 (lines 468-484) running   *)
(* the gradient attack on one sample.  The sample has one feature, measured *)
(* in units of the step size; the update is the one the notebook states     *)
(* (lines 493-499): x_{i+1} = x_i + alpha * gradient.                      *)
(***************************************************************************)

\* steps of one run (the notebook uses steps = 100)
MaxSteps == 2

\* the points a run of MaxSteps steps can visit from Point0
Points == 0..(2 * MaxSteps)

\* x0 = ts.X[point, :]
Point0 == MaxSteps

\* the gradient of the loss, in units that alpha turns into one step
Gradients == {-1, 0, 1}

\* clf.predict(x)
Predict(x) == IF x >= aBoundary THEN 1 ELSE 0

\* a point that moves whatever the gradient is
UpdateAlways(x, g) == x + 1

\* x_{i+1} = x_i + alpha * gradient
Update(x, g) == x + g

InitAttack ==
    /\ aGrad \in [Points -> Gradients]
    /\ aBoundary \in 0..(2 * MaxSteps + 1)
    /\ aPc = "idle"
    /\ aX = Point0
    /\ aSeq = <<>>
    /\ aPred = NoLabel
    /\ aPredAdv = NoLabel
    /\ BootIdle /\ SessIdle /\ DataIdle /\ TextIdle /\ NameIdle
    /\ ShareIdle
    /\ RunIdle
    /\ ExplIdle
    /\ SplitIdle
    /\ PoisIdle
    /\ ProtoIdle
    /\ FigIdle

\* line 471: pred = clf.predict(x0)
AttackPredict ==
    /\ aPc = "idle"
    /\ aPred' = Predict(Point0)
    /\ aPc' = "run"
    /\ UNCHANGED <<aGrad, aBoundary, aX, aSeq, aPredAdv,
                   bootVars, sessVars, dataVars, textVars, nameVars, shareVars, runVars, explVars, splitVars, poisVars, protoVars, figVars>>

\* line 472: attack.run(x0, y0) starts from x0 (random_start = False, line 430)
AttackRun ==
    /\ aPc = "run"
    /\ aX' = Point0
    /\ aSeq' = <<Point0>>
    /\ aPc' = "step"
    /\ UNCHANGED <<aGrad, aBoundary, aPred, aPredAdv,
                   bootVars, sessVars, dataVars, textVars, nameVars, shareVars, runVars, explVars, splitVars, poisVars, protoVars, figVars>>

\* one of the `steps` updates of the run
AttackStep ==
    /\ aPc = "step"
    /\ Len(aSeq) <= MaxSteps
    /\ aX' = Update(aX, aGrad[aX])
    /\ aSeq' = Append(aSeq, aX')
    /\ UNCHANGED <<aGrad, aBoundary, aPc, aPred, aPredAdv,
                   bootVars, sessVars, dataVars, textVars, nameVars, shareVars, runVars, explVars, splitVars, poisVars, protoVars, figVars>>

\* line 472: y_pred_adv, _, _, _ = attack.run(x0, y0) returns
AttackReturn ==
    /\ aPc = "step"
    /\ Len(aSeq) = MaxSteps + 1
    /\ aPredAdv' = Predict(aX)
    /\ aPc' = "plot"
    /\ UNCHANGED <<aGrad, aBoundary, aX, aSeq, aPred,
                   bootVars, sessVars, dataVars, textVars, nameVars, shareVars, runVars, explVars, splitVars, poisVars, protoVars, figVars>>

\* lines 474-484: print the predictions, plot the loss along attack.x_seq
PlotPath ==
    /\ aPc = "plot"
    /\ aPc' = "idle"
    /\ UNCHANGED <<aGrad, aBoundary, aX, aSeq, aPred, aPredAdv,
                   bootVars, sessVars, dataVars, textVars, nameVars, shareVars, runVars, explVars, splitVars, poisVars, protoVars, figVars>>

NextAttack ==
    \/ AttackPredict
    \/ AttackRun
    \/ AttackStep
    \/ AttackReturn
    \/ PlotPath

\* attack.run is a loop of `steps` iterations followed by a return: once
\* started it is not suspended
SpecAttack ==
    /\ InitAttack /\ [][NextAttack]_vars
    /\ WF_vars(AttackStep) /\ WF_vars(AttackReturn)

(***************************************************************************)
(* SpecText: the cells of notebook 06 that bind or call `pred`, `model`    *)
(* and `tokenizer`, executed in any order.  A cell that raises stops and   *)
(* keeps the bindings made so far.                                         *)
(***************************************************************************)

\* the global names whose bindings the cells below read
TextNames == {"ts", "clf", "x", "pred", "tokenizer", "model"}

\* statements of each cell that are modelled as separate steps
TextSteps(c) ==
    CASE c = "mnist"      -> 1    \* lines 116-149
      [] c = "sample"     -> 1    \* lines 200-201
      [] c = "pgd"        -> 3    \* lines 339, 344, 346
      [] c = "prototypes" -> 1    \* lines 498-504
      [] c = "bert"       -> 4    \* lines 588, 591, 593, 596
      [] c = "shap"       -> 1    \* line 638

TextCells == {"mnist", "sample", "pgd", "prototypes", "bert", "shap"}

InitText ==
    /\ tCuda \in BOOLEAN
    /\ tCell = "idle"
    /\ tPc = 0
    /\ tKind = [n \in TextNames |-> "unbound"]
    /\ tDevice = "none"
    /\ tRaised = "none"
    /\ tPredAtEntry = "unbound"
    /\ BootIdle /\ SessIdle /\ DataIdle /\ AttackIdle /\ NameIdle
    /\ ShareIdle
    /\ RunIdle
    /\ ExplIdle
    /\ SplitIdle
    /\ PoisIdle
    /\ ProtoIdle
    /\ FigIdle

\* the user executes cell c
TextExecuteCell(c) ==
    /\ tPc = 0
    /\ tCell' = c
    /\ tPc' = 1
    /\ tRaised' = "none"
    /\ tPredAtEntry' = tKind["pred"]
    /\ UNCHANGED <<tCuda, tKind, tDevice,
                   bootVars, sessVars, dataVars, attackVars, nameVars, shareVars, runVars, explVars, splitVars, poisVars, protoVars, figVars>>

TextAt(c, k) == tCell = c /\ tPc = k

\* the cell ends with exception exc
TextRaise(exc) == tPc' = 0 /\ tRaised' = exc

\* the statement completes; the cell ends after its last statement
TextAdvance == tPc' = (IF tPc = TextSteps(tCell) THEN 0 ELSE tPc + 1) /\ UNCHANGED tRaised

\* statement reads the names `reads`, then binds the names of `binds`
TextStatement(reads, binds) ==
    IF \E n \in reads : tKind[n] = "unbound"
    THEN TextRaise("NameError") /\ UNCHANGED tKind
    ELSE TextAdvance /\ tKind' = [n \in TextNames |-> IF n \in DOMAIN binds THEN binds[n] ELSE tKind[n]]

\* lines 116-149: ts and the SVM clf
TextMnistCell ==
    /\ TextAt("mnist", 1)
    /\ TextStatement({}, [ts |-> "dataset", clf |-> "svm"])
    /\ UNCHANGED <<tCuda, tCell, tDevice, tPredAtEntry,
                   bootVars, sessVars, dataVars, attackVars, nameVars, shareVars, runVars, explVars, splitVars, poisVars, protoVars, figVars>>

\* lines 200-201: x, y = ts[i, :].X, ts[i, :].Y
TextSampleCell ==
    /\ TextAt("sample", 1)
    /\ TextStatement({"ts"}, [x |-> "sample"])
    /\ UNCHANGED <<tCuda, tCell, tDevice, tPredAtEntry,
                   bootVars, sessVars, dataVars, attackVars, nameVars, shareVars, runVars, explVars, splitVars, poisVars, protoVars, figVars>>

\* lines 339-346: attack = CFoolboxPGDLinf(clf, ...); attack.run(x, y);
\* pred = clf.predict(adv_ds.X).item()
TextPgdCell ==
    /\ \/ TextAt("pgd", 1) /\ TextStatement({"clf"}, <<>>)
       \/ TextAt("pgd", 2) /\ TextStatement({"x"}, <<>>)
       \/ TextAt("pgd", 3) /\ TextStatement({"clf"}, [pred |-> "int"])
    /\ UNCHANGED <<tCuda, tCell, tDevice, tPredAtEntry,
                   bootVars, sessVars, dataVars, attackVars, nameVars, shareVars, runVars, explVars, splitVars, poisVars, protoVars, figVars>>

\* lines 498-504: x, y = ts[ts_idx, :].X, ...; pred = clf.predict(x)
TextPrototypesCell ==
    /\ TextAt("prototypes", 1)
    /\ TextStatement({"ts", "clf"}, [x |-> "sample", pred |-> "labels"])
    /\ UNCHANGED <<tCuda, tCell, tDevice, tPredAtEntry,
                   bootVars, sessVars, dataVars, attackVars, nameVars, shareVars, runVars, explVars, splitVars, poisVars, protoVars, figVars>>

\* a download from the model hub succeeds or raises
FromPretrained(binds) ==
    \/ TextStatement({}, binds)
    \/ TextRaise("OSError") /\ UNCHANGED tKind

\* lines 588-590: tokenizer = AutoTokenizer.from_pretrained(...)
BertTokenizer ==
    /\ TextAt("bert", 1)
    /\ FromPretrained([tokenizer |-> "tokenizer"])
    /\ UNCHANGED <<tCuda, tCell, tDevice, tPredAtEntry,
                   bootVars, sessVars, dataVars, attackVars, nameVars, shareVars, runVars, explVars, splitVars, poisVars, protoVars, figVars>>

\* lines 591-593: AutoModelForSequenceClassification.from_pretrained(...), the
\* value .cuda() is called on; nothing is bound yet
BertFromPretrained ==
    /\ TextAt("bert", 2)
    /\ FromPretrained(<<>>)
    /\ UNCHANGED <<tCuda, tCell, tDevice, tPredAtEntry,
                   bootVars, sessVars, dataVars, attackVars, nameVars, shareVars, runVars, explVars, splitVars, poisVars, protoVars, figVars>>

\* a device chosen by what is available
ToAvailableDevice == IF tCuda THEN "cuda:0" ELSE "cpu"

\* line 593: .cuda() moves the model to the accelerator, or raises
ToCuda == IF tCuda THEN "cuda:0" ELSE "raise"

\* line 593: model = (...).cuda()
BertCuda ==
    /\ TextAt("bert", 3)
    /\ IF ToCuda = "raise"
       THEN TextRaise("CudaError") /\ UNCHANGED <<tKind, tDevice>>
       ELSE /\ TextStatement({}, [model |-> "bert"])
            /\ tDevice' = ToCuda
    /\ UNCHANGED <<tCuda, tCell, tPredAtEntry,
                   bootVars, sessVars, dataVars, attackVars, nameVars, shareVars, runVars, explVars, splitVars, poisVars, protoVars, figVars>>

\* lines 596-602: pred = transformers.pipeline(..., model=model,
\* tokenizer=tokenizer, device=0, ...)
BertPipeline ==
    /\ TextAt("bert", 4)
    /\ IF tCuda
       THEN TextStatement({"model", "tokenizer"}, [pred |-> "pipeline"])
       ELSE TextRaise("CudaError") /\ UNCHANGED tKind
    /\ UNCHANGED <<tCuda, tCell, tDevice, tPredAtEntry,
                   bootVars, sessVars, dataVars, attackVars, nameVars, shareVars, runVars, explVars, splitVars, poisVars, protoVars, figVars>>

\* line 638: print(pred(data)[0]) calls whatever pred is bound to
ShapCell ==
    /\ TextAt("shap", 1)
    /\ IF tKind["pred"] \in {"int", "labels"}
       THEN TextRaise("TypeError") /\ UNCHANGED tKind
       ELSE TextStatement({"pred"}, <<>>)
    /\ UNCHANGED <<tCuda, tCell, tDevice, tPredAtEntry,
                   bootVars, sessVars, dataVars, attackVars, nameVars, shareVars, runVars, explVars, splitVars, poisVars, protoVars, figVars>>

NextText ==
    \/ \E c \in TextCells : TextExecuteCell(c)
    \/ TextMnistCell
    \/ TextSampleCell
    \/ TextPgdCell
    \/ TextPrototypesCell
    \/ BertTokenizer
    \/ BertFromPretrained
    \/ BertCuda
    \/ BertPipeline
    \/ ShapCell

SpecText == InitText /\ [][NextText]_vars

(***************************************************************************)
(* SpecNames: the global names each statement of each code cell reads and  *)
(* binds, for the three notebooks.  The cells are taken from the top; a    *)
(* cell is executed or passed over.  Builtins are always bound; every      *)
(* library call succeeds and a TODO placeholder binds its name.            *)
(***************************************************************************)

\* cells that may be passed over in one execution
MaxSkips == 2

\* a statement at `line` that reads the global names r, then binds the names b
St(line, r, b) == [line |-> line, reads |-> r, binds |-> b]

Nb04Cells == <<
    \* cell 1, lines 26-45
    <<St(27, {}, {"secml"}),
      St(32, {}, {"foolbox"}),
      St(37, {}, {"robustbench"}),
      St(41, {}, {"os"}),
      St(42, {"os"}, {}),
      St(43, {"os"}, {}),
      St(45, {"os"}, {})>>,
    \* cell 2, lines 75-108
    <<St(75, {}, {"os"}),
      St(76, {}, {"torch"}),
      St(77, {}, {"download_gdrive"}),
      St(78, {}, {"CArray"}),
      St(79, {}, {"CClassifierPyTorch"}),
      St(80, {}, {"SparseResNet18"}),
      St(82, {"os"}, {}),
      St(83, {"os"}, {}),
      St(86, {}, {"MODEL_ID"}),
      St(88, {}, {"gamma"}),
      St(89, {"os", "gamma"}, {"filepath"}),
      St(90, {"os", "filepath"}, {}),
      St(92, {"download_gdrive", "MODEL_ID", "filepath"}, {}),
      St(96, {"SparseResNet18", "gamma"}, {"model"}),
      St(99, {"torch"}, {}),
      St(100, {"torch", "filepath"}, {"state_dict"}),
      St(102, {"torch", "filepath"}, {"state_dict"}),
      St(105, {"model", "state_dict"}, {}),
      St(106, {"model"}, {}),
      St(107, {"CClassifierPyTorch", "model", "CArray"}, {"clf"})>>,
    \* cell 3, lines 119-127
    <<St(120, {}, {"CDataLoaderCIFAR10"}),
      St(121, {"CDataLoaderCIFAR10"}, {"ts"}),
      St(124, {"ts"}, {"ts"}),
      St(127, {"ts"}, {"ts"})>>,
    \* cell 4, lines 138-145
    <<St(139, {}, {"CMetricAccuracy"}),
      St(141, {"CMetricAccuracy"}, {"metric"}),
      St(142, {"clf", "ts"}, {"preds"}),
      St(144, {"metric", "ts", "preds"}, {"acc"}),
      St(145, {"acc"}, {})>>,
    \* cell 5, lines 167-190
    <<St(167, {}, {"idx"}),
      St(168, {"ts", "idx"}, {"samples", "labels"}),
      St(169, {"clf", "samples"}, {"y_pred"}),
      St(171, {}, {"CFoolboxPGDLinf"}),
      St(173, {}, {"epsilon"}),
      St(174, {}, {"abs_stepsize"}),
      St(175, {}, {"steps"}),
      St(176, {}, {"random_start"}),
      St(180, {}, {"attack"}),
      St(184, {"attack", "samples", "labels"}, {"y_pred_adv"}),
      St(186, {"metric", "labels", "y_pred"}, {"accuracy"}),
      St(187, {"metric", "labels", "y_pred_adv"}, {"robust_accuracy"}),
      St(189, {"accuracy"}, {}),
      St(190, {"robust_accuracy"}, {})>>,
    \* cell 6, lines 212-231
    <<St(213, {}, {"point"}),
      St(214, {"ts", "point"}, {"x0", "y0"}),
      St(215, {"clf", "x0"}, {"pred"}),
      St(216, {"attack", "x0", "y0"}, {"y_pred_adv"}),
      St(218, {"y0", "pred", "y_pred_adv"}, {}),
      St(220, {}, {"CFigure"}),
      St(221, {"CFigure"}, {"fig"}),
      St(224, {"attack"}, {"path"}),
      St(229, {"fig"}, {}),
      St(230, {"fig"}, {}),
      St(231, {"fig"}, {})>>,
    \* cell 7, lines 288-294
    <<St(288, {}, {"CFoolboxAveragedPGD"}),
      St(294, {}, {"smooth_attack"})>>,
    \* cell 8, lines 305-317
    <<St(306, {"smooth_attack", "x0", "y0"}, {"y_pred_adv_smooth"}),
      St(308, {"y0", "pred", "y_pred_adv_smooth"}, {}),
      St(310, {"CFigure"}, {"fig"}),
      St(313, {"smooth_attack"}, {"path"}),
      St(314, {"fig", "smooth_attack", "path"}, {}),
      St(315, {"fig"}, {}),
      St(316, {"fig"}, {}),
      St(317, {"fig"}, {})>>,
    \* cell 9, lines 357-377
    <<St(357, {}, {"MNIST9Layer"}),
      St(358, {}, {"os"}),
      St(360, {}, {"torch"}),
      St(361, {}, {"download_gdrive"}),
      St(362, {}, {"CArray"}),
      St(363, {}, {"CClassifierPyTorch"}),
      St(364, {}, {"nn"}),
      St(366, {}, {"MODEL_ID"}),
      St(368, {"MNIST9Layer"}, {"model"}),
      St(369, {"os"}, {"path"}),
      St(370, {"os", "path"}, {}),
      St(371, {"download_gdrive", "MODEL_ID", "path"}, {}),
      St(372, {"torch", "path"}, {"state_dict"}),
      St(373, {"model", "state_dict"}, {}),
      St(374, {"model"}, {}),
      St(376, {"CClassifierPyTorch", "model", "CArray"}, {"clf"})>>,
    \* cell 10, lines 388-396
    <<St(389, {}, {"CDataLoaderMNIST"}),
      St(390, {"CDataLoaderMNIST"}, {"ts"}),
      St(393, {"ts"}, {"ts"}),
      St(396, {"ts"}, {"ts"})>>,
    \* cell 11, lines 422-447
    <<St(422, {}, {"idx"}),
      St(423, {"ts", "idx"}, {"samples", "labels"}),
      St(425, {"clf", "samples"}, {"y_pred"}),
      St(427, {}, {"epsilon"}),
      St(428, {}, {"abs_stepsize"}),
      St(429, {}, {"steps"}),
      St(430, {}, {"random_start"}),
      St(432, {}, {"CFoolboxPGDLinf"}),
      St(435, {}, {"attack"}),
      St(437, {}, {"CMetricAccuracy"}),
      St(438, {"CMetricAccuracy"}, {"metric"}),
      St(441, {"attack", "samples", "labels"}, {"y_pred_adv"}),
      St(443, {"metric", "labels", "y_pred"}, {"accuracy"}),
      St(444, {"metric", "labels", "y_pred_adv"}, {"robust_accuracy"}),
      St(446, {"accuracy"}, {}),
      St(447, {"robust_accuracy"}, {})>>,
    \* cell 12, lines 468-484
    <<St(469, {}, {"point"}),
      St(470, {"ts", "point"}, {"x0", "y0"}),
      St(471, {"clf", "x0"}, {"pred"}),
      St(472, {"attack", "x0", "y0"}, {"y_pred_adv"}),
      St(474, {"y0", "pred", "y_pred_adv"}, {}),
      St(476, {}, {"CFigure"}),
      St(477, {"CFigure"}, {"fig"}),
      St(480, {"attack"}, {"path"}),
      St(481, {"fig", "attack", "path"}, {}),
      St(482, {"fig"}, {}),
      St(483, {"fig"}, {}),
      St(484, {"fig"}, {})>>,
    \* cell 13, lines 511-518
    <<St(514, {}, {"gradient"}),
      St(516, {}, {"gradient_size"}),
      St(518, {"gradient_size"}, {})>>,
    \* cell 14, lines 542-560
    <<St(544, {}, {"CFoolboxLogitsPGD"}),
      St(548, {}, {"logits_attack"}),
      St(549, {"logits_attack", "x0", "y0"}, {"y_pred_adv_logits"}),
      St(551, {"y0", "pred", "y_pred_adv_logits"}, {}),
      St(553, {"CFigure"}, {"fig"}),
      St(556, {"logits_attack"}, {"path"}),
      St(557, {"fig", "logits_attack", "path"}, {}),
      St(558, {"fig"}, {}),
      St(559, {"fig"}, {}),
      St(560, {"fig"}, {})>>,
    \* cell 15, lines 582-586
    <<St(582, {"logits_attack", "x0"}, {"gradient"}),
      St(584, {"gradient"}, {"gradient_size"}),
      St(586, {"gradient_size"}, {})>>,
    \* cell 16, lines 609-653
    <<St(609, {}, {"MODEL_ID"}),
      St(611, {"MNIST9Layer"}, {"teacher_model"}),
      St(612, {"os"}, {"teacher_path"}),
      St(613, {"os", "teacher_path"}, {}),
      St(614, {"download_gdrive", "MODEL_ID", "teacher_path"}, {}),
      St(615, {"torch", "teacher_path"}, {"teacher_state_dict"}),
      St(616, {"teacher_model", "teacher_state_dict"}, {}),
      St(617, {"teacher_model"}, {}),
      St(619, {"CClassifierPyTorch", "teacher_model", "CArray"}, {"teacher_clf"}),
      St(624, {}, {"idx"}),
      St(625, {"ts", "idx"}, {"samples", "labels"}),
      St(627, {}, {"epsilon"}),
      St(628, {}, {"abs_stepsize"}),
      St(629, {}, {"steps"}),
      St(630, {}, {"random_start"}),
      St(634, {}, {"attack_teacher"}),
      St(638, {}, {"y_pred_adv_teacher", "adv_ds"}),
      St(640, {"clf", "samples"}, {"y_pred_student"}),
      St(641, {"clf", "adv_ds"}, {"y_pred_adv_student"}),
      St(643, {"metric", "labels", "y_pred_student"}, {"accuracy"}),
      St(647, {}, {"robust_accuracy_teacher"}),
      St(648, {}, {"robust_accuracy_student"}),
      St(650, {"robust_accuracy_teacher"}, {}),
      St(652, {"accuracy"}, {}),
      St(653, {"robust_accuracy_student"}, {})>>,
    \* cell 17, lines 664-681
    <<St(666, {}, {"point"}),
      St(667, {"ts", "point"}, {"x0", "y0"}),
      St(668, {"teacher_clf", "x0"}, {"pred"}),
      St(669, {"attack_teacher", "x0", "y0"}, {"y_pred_adv"}),
      St(671, {"y0", "pred", "y_pred_adv"}, {}),
      St(673, {"CFigure"}, {"fig"}),
      St(676, {"attack_teacher"}, {"path"}),
      St(677, {"fig", "attack_teacher", "path"}, {}),
      St(678, {"fig"}, {}),
      St(679, {"fig"}, {}),
      St(680, {"fig"}, {})>>
>>

Nb06Cells == <<
    \* cell 1, lines 34-44
    <<St(43, {}, {"secml"}),
      St(44, {}, {"foolbox"})>>,
    \* cell 2, lines 116-149
    <<St(116, {}, {"random_state"}),
      St(118, {}, {"n_tr"}),
      St(119, {}, {"n_ts"}),
      St(122, {}, {"CDataLoaderMNIST"}),
      St(124, {"CDataLoaderMNIST"}, {"loader"}),
      St(125, {"loader", "n_tr"}, {"tr"}),
      St(126, {"loader", "n_ts"}, {"ts"}),
      St(129, {"tr"}, {"tr"}),
      St(130, {"ts"}, {"ts"}),
      St(133, {}, {"CClassifierSVM"}),
      St(134, {}, {"CKernelRBF"}),
      St(136, {"CClassifierSVM", "CKernelRBF"}, {"clf"}),
      St(139, {"clf", "tr"}, {}),
      St(142, {"clf", "ts"}, {"y_pred"}),
      St(145, {}, {"CMetricAccuracy"}),
      St(147, {"CMetricAccuracy"}, {"metric"}),
      St(148, {"metric", "ts", "y_pred"}, {"acc"}),
      St(149, {"acc"}, {})>>,
    \* cell 3, lines 180-189
    <<St(180, {}, {"CExplainerGradient", "CExplainerGradientInput", "CExplainerIntegratedGradients"}),
      St(185, {}, {"explainers"})>>,
    \* cell 4, lines 200-224
    <<St(200, {}, {"i"}),
      St(201, {"ts", "i"}, {"x", "y"}),
      St(203, {"i", "y"}, {}),
      St(205, {}, {"CArray"}),
      St(208, {}, {"attributions"}),
      St(210, {"explainers"}, {"expl_name"}),
      St(213, {"expl_name"}, {}),
      St(216, {"CArray", "tr", "x"}, {"attr"}),
      St(219, {"tr"}, {"c"}),
      St(221, {}, {"attr_c"}),
      St(222, {"attr_c", "attr", "c"}, {}),
      St(224, {"attr", "attributions", "expl_name"}, {})>>,
    \* cell 5, lines 252-294
    <<St(252, {}, {"CFigure"}),
      St(256, {"CFigure"}, {"fig"}),
      St(258, {"explainers"}, {"i", "expl_name"}),
      St(260, {"attributions", "expl_name"}, {"attr"}),
      St(262, {"i", "tr"}, {"sp_idx"}),
      St(265, {"fig", "explainers", "tr", "sp_idx"}, {}),
      St(266, {"fig", "x", "tr"}, {}),
      St(268, {"i"}, {}),
      St(269, {"fig", "y"}, {}),
      St(271, {"fig", "expl_name"}, {}),
      St(273, {"fig"}, {}),
      St(274, {"fig"}, {}),
      St(277, {"attr"}, {"th"}),
      St(280, {"tr"}, {"c"}),
      St(282, {"fig", "explainers", "tr", "sp_idx", "c"}, {}),
      St(283, {"fig", "attr", "c", "tr", "th"}, {}),
      St(286, {"fig"}, {}),
      St(287, {"fig"}, {}),
      St(289, {"i"}, {}),
      St(290, {"fig", "c"}, {}),
      St(292, {"fig"}, {}),
      St(293, {"fig"}, {}),
      St(294, {"fig"}, {})>>,
    \* cell 6, lines 336-349
    <<St(336, {}, {"CFoolboxPGDLinf"}),
      St(338, {}, {"y_target"}),
      St(339, {"CFoolboxPGDLinf", "clf", "y_target"}, {"attack"}),
      St(344, {"attack", "x", "y"}, {"adv_ds"}),
      St(346, {"clf", "adv_ds"}, {"pred"}),
      St(347, {"pred"}, {})>>,
    \* cell 7, lines 395-422
    <<St(395, {}, {"n_tr"}),
      St(396, {}, {"n_ts"}),
      St(398, {}, {"digits"}),
      St(401, {"CDataLoaderMNIST"}, {"loader"}),
      St(402, {"loader", "digits", "n_tr"}, {"tr"}),
      St(403, {"loader", "digits", "n_ts"}, {"ts"}),
      St(406, {"tr"}, {"tr"}),
      St(407, {"ts"}, {"ts"}),
      St(410, {"CClassifierSVM", "CKernelRBF"}, {"clf"}),
      St(414, {"clf", "tr"}, {}),
      St(417, {"clf", "ts"}, {"y_pred"}),
      St(420, {"CMetricAccuracy"}, {"metric"}),
      St(421, {"metric", "ts", "y_pred"}, {"acc"}),
      St(422, {"acc"}, {})>>,
    \* cell 8, lines 454-464
    <<St(454, {}, {"CExplainerInfluenceFunctions"}),
      St(458, {}, {"explanation"}),
      St(464, {}, {"infl"})>>,
    \* cell 9, lines 490-530
    <<St(490, {"CFigure"}, {"fig"}),
      St(492, {}, {"n_xc"}),
      St(494, {}, {"ts_list"}),
      St(496, {"infl"}, {"infl_argsort"}),
      St(498, {"ts_list"}, {"i", "ts_idx"}),
      St(500, {"i", "n_xc", "tr"}, {"sp_idx"}),
      St(502, {"ts", "ts_idx"}, {"x", "y"}),
      St(504, {"clf", "x"}, {"pred"}),
      St(507, {"fig", "ts_list", "n_xc", "tr", "sp_idx"}, {}),
      St(508, {"fig", "x", "tr"}, {}),
      St(510, {"fig", "ts", "y", "pred"}, {}),
      St(512, {"fig"}, {}),
      St(513, {"fig"}, {}),
      St(515, {"infl_argsort", "ts_idx", "n_xc"}, {"tr_top"}),
      St(516, {"tr_top", "infl_argsort", "ts_idx", "n_xc"}, {"tr_top"}),
      St(519, {"tr_top"}, {"j", "tr_idx"}),
      St(520, {"fig", "ts_list", "n_xc", "tr", "sp_idx", "j"}, {}),
      St(521, {"fig", "tr", "tr_idx"}, {}),
      St(523, {"fig", "infl", "ts_idx", "tr_idx"}, {}),
      St(525, {"fig"}, {}),
      St(526, {"fig"}, {}),
      St(528, {"fig"}, {}),
      St(529, {"fig"}, {}),
      St(530, {"fig"}, {})>>,
    \* cell 10, lines 584-602
    <<St(584, {}, {"transformers"}),
      St(588, {"transformers"}, {"tokenizer"}),
      St(591, {"transformers"}, {"model"}),
      St(596, {"transformers", "model", "tokenizer"}, {"pred"})>>,
    \* cell 11, lines 631-646
    <<St(631, {}, {"shap"}),
      St(635, {}, {"data"}),
      St(638, {"pred", "data"}, {}),
      St(642, {}, {"explainer"}),
      St(646, {}, {"shap_values"})>>,
    \* cell 12, lines 694-704
    <<St(694, {}, {"datasets"}),
      St(695, {}, {"pd"}),
      St(699, {"datasets"}, {"dataset"}),
      St(700, {"pd", "dataset"}, {"data"}),
      St(704, {}, {"shap_values"})>>,
    \* cell 13, lines 726-728
    <<St(726, {"shap_values"}, {"red_shap_values"})>>,
    \* cell 14, lines 739-740
    <<St(740, {"shap", "red_shap_values"}, {})>>,
    \* cell 15, lines 751-752
    <<St(752, {"shap", "red_shap_values"}, {})>>
>>

Nb05Cells == <<
    \* cell 1, lines 34-45
    <<St(41, {}, {"secml"}),
      St(42, {}, {"foolbox"})>>,
    \* cell 2, lines 58-114
    <<St(58, {}, {"random_state"}),
      St(60, {}, {"n_features"}),
      St(61, {}, {"n_samples"}),
      St(62, {}, {"centers"}),
      St(63, {}, {"cluster_std"}),
      St(65, {}, {"CDLRandomBlobs"}),
      St(67, {"CDLRandomBlobs", "n_features", "centers", "cluster_std", "n_samples", "random_state"}, {"dataset"}),
      St(73, {}, {"n_tr"}),
      St(74, {}, {"n_val"}),
      St(75, {}, {"n_ts"}),
      St(78, {}, {"CTrainTestSplit"}),
      St(80, {"CTrainTestSplit", "n_tr", "n_val", "n_ts", "random_state"}, {"splitter"}),
      St(82, {"splitter", "dataset"}, {"tr_val", "ts"}),
      St(83, {"CTrainTestSplit", "n_tr", "n_val", "random_state"}, {"splitter"}),
      St(85, {"splitter", "dataset"}, {"tr", "val"}),
      St(88, {}, {"CNormalizerMinMax"}),
      St(90, {"CNormalizerMinMax"}, {"nmz"}),
      St(91, {"nmz", "tr"}, {}),
      St(92, {"nmz", "val"}, {}),
      St(93, {"nmz", "ts"}, {}),
      St(96, {}, {"CMetricAccuracy"}),
      St(98, {"CMetricAccuracy"}, {"metric"}),
      St(101, {}, {"CClassifierSVM"}),
      St(102, {}, {"CKernelRBF"}),
      St(104, {"CClassifierSVM", "CKernelRBF"}, {"clean_clf"}),
      St(107, {"clean_clf", "tr"}, {}),
      St(111, {"clean_clf", "ts"}, {"y_pred"}),
      St(113, {"metric", "ts", "y_pred"}, {"acc"}),
      St(114, {"acc"}, {})>>,
    \* cell 3, lines 178-204
    <<St(178, {"val"}, {"lb", "ub"}),
      St(181, {}, {"solver_params"}),
      St(189, {}, {"CAttackPoisoningSVM"}),
      St(193, {}, {"attack"}),
      St(196, {"tr"}, {"xc"}),
      St(197, {"tr"}, {"yc"}),
      St(198, {"xc", "attack"}, {}),
      St(199, {"xc", "attack"}, {}),
      St(200, {"yc", "attack"}, {}),
      St(202, {"xc"}, {}),
      St(203, {"yc"}, {})>>,
    \* cell 4, lines 213-237
    <<St(214, {}, {"CFigure"}),
      St(216, {"CFigure"}, {"fig"}),
      St(217, {"lb", "ub"}, {"grid_limits"}),
      St(220, {"fig", "tr"}, {}),
      St(223, {"fig", "tr"}, {}),
      St(225, {"fig"}, {}),
      St(230, {}, {"CConstraintBox"}),
      St(232, {"CConstraintBox", "lb", "ub"}, {"box"}),
      St(233, {"fig", "box", "grid_limits"}, {}),
      St(236, {"fig"}, {}),
      St(237, {"fig"}, {})>>,
    \* cell 5, lines 261-284
    <<St(261, {}, {"n_samples"}),
      St(262, {"n_samples"}, {"n_poisoning_points"}),
      St(263, {"n_poisoning_points", "attack"}, {}),
      St(269, {}, {"pois_y_pred", "pois_scores", "pois_ds", "f_opt"}),
      St(278, {"metric", "ts", "y_pred"}, {"acc"}),
      St(281, {}, {"pois_acc"}),
      St(283, {"acc"}, {}),
      St(284, {"pois_acc"}, {})>>,
    \* cell 6, lines 312-316
    <<St(312, {"clean_clf"}, {"poisoned_clf"}),
      St(313, {"tr", "pois_ds"}, {"pois_tr"}),
      St(316, {"poisoned_clf", "pois_tr"}, {})>>,
    \* cell 7, lines 325-369
    <<St(327, {"pois_tr", "ts"}, {"min_limit"}),
      St(328, {"pois_tr", "ts"}, {"max_limit"}),
      St(329, {"min_limit", "max_limit"}, {"grid_limits"}),
      St(331, {"CFigure"}, {"fig"}),
      St(339, {"fig"}, {}),
      St(340, {"fig"}, {}),
      St(341, {"fig", "clean_clf", "grid_limits"}, {}),
      St(343, {"fig", "tr"}, {}),
      St(344, {"fig"}, {}),
      St(346, {"fig"}, {}),
      St(347, {"fig"}, {}),
      St(348, {"fig", "poisoned_clf", "grid_limits"}, {}),
      St(350, {"fig", "tr"}, {}),
      St(351, {"fig", "pois_ds"}, {}),
      St(353, {"fig"}, {}),
      St(355, {"fig"}, {}),
      St(356, {"fig"}, {}),
      St(357, {"fig", "clean_clf", "grid_limits"}, {}),
      St(359, {"fig", "ts"}, {}),
      St(360, {"fig"}, {}),
      St(362, {"fig"}, {}),
      St(363, {"fig"}, {}),
      St(364, {"fig", "poisoned_clf", "grid_limits"}, {}),
      St(366, {"fig", "ts"}, {}),
      St(367, {"fig"}, {}),
      St(369, {"fig"}, {})>>,
    \* cell 8, lines 415-446
    <<St(415, {}, {"CArray"}),
      St(417, {"CArray"}, {"n_poisoning_samples"}),
      St(419, {}, {"poisoned_clfs"}),
      St(420, {}, {"test_accuracies"}),
      St(425, {"n_poisoning_samples"}, {"i", "p"}),
      St(426, {"p"}, {}),
      St(428, {}, {"attack"}),
      St(429, {"attack"}, {}),
      St(430, {}, {"poisoning_ds"}),
      St(433, {"clean_clf"}, {"poisoned_clf"}),
      St(435, {}, {"pois_tr"}),
      St(439, {"poisoned_clfs", "poisoned_clf"}, {}),
      St(443, {}, {"preds"}),
      St(444, {"metric", "ts", "preds"}, {"acc"}),
      St(445, {"test_accuracies", "acc"}, {}),
      St(446, {"acc"}, {})>>,
    \* cell 9, lines 460-468
    <<St(461, {"test_accuracies"}, {}),
      St(462, {"CFigure"}, {"fig"}),
      St(463, {"fig", "n_poisoning_samples", "test_accuracies"}, {}),
      St(464, {"fig"}, {}),
      St(465, {"fig", "n_poisoning_samples"}, {}),
      St(466, {"fig"}, {}),
      St(467, {"fig"}, {}),
      St(468, {"fig"}, {})>>,
    \* cell 10, lines 484-506
    <<St(484, {}, {"CSecEval"}),
      St(485, {}, {"CFoolboxPGDL2"}),
      St(487, {}, {"steps"}),
      St(488, {}, {"abs_stepsize"}),
      St(489, {"CArray"}, {"epsilons"}),
      St(493, {"nmz", "ts"}, {}),
      St(495, {}, {"sec_evals"}),
      St(496, {"poisoned_clfs", "n_poisoning_samples"}, {"poisoned_classifier", "number_poisoning_points"}),
      St(498, {"number_poisoning_points"}, {}),
      St(500, {}, {"evasion_attack"}),
      St(501, {"CSecEval", "evasion_attack", "epsilons"}, {"sec_eval"}),
      St(503, {"sec_eval", "ts"}, {}),
      St(504, {"sec_evals", "sec_eval"}, {})>>,
    \* cell 11, lines 515-519
    <<St(517, {"CFigure"}, {"fig"}),
      St(518, {"sec_evals", "n_poisoning_samples"}, {"sec_eval_data", "number_poisoning_points"}),
      St(519, {"fig", "sec_eval_data", "number_poisoning_points"}, {})>>
>>

CellsOf(nb) ==
    CASE nb = "nb04" -> Nb04Cells
      [] nb = "nb06" -> Nb06Cells
      [] nb = "nb05" -> Nb05Cells

\* bindings that are lost when the statement ends
BindsNothing(st) == {}

\* the names a statement leaves bound in the kernel's global namespace
BindsOf(st) == st.binds

\* the names a statement reads that are not bound
Missing(names, st) == st.reads \ names

\* the namespace and the NameErrors after the statements k.. of a cell: a
\* statement that reads an unbound name raises and ends the cell
RECURSIVE RunCell(_, _, _)
RunCell(names, stmts, k) ==
    IF k > Len(stmts) THEN [bound |-> names, errors |-> {}]
    ELSE IF Missing(names, stmts[k]) # {}
         THEN [bound |-> names, errors |-> Missing(names, stmts[k])]
         ELSE RunCell(names \cup BindsOf(stmts[k]), stmts, k + 1)

InitNames ==
    /\ nNb \in {"nb04", "nb06", "nb05"}
    /\ nPos = 1
    /\ nBound = {}
    /\ nSkipped = 0
    /\ nErrors = {}
    /\ BootIdle /\ SessIdle /\ DataIdle /\ AttackIdle /\ TextIdle
    /\ ShareIdle
    /\ RunIdle
    /\ ExplIdle
    /\ SplitIdle
    /\ PoisIdle
    /\ ProtoIdle
    /\ FigIdle

\* the user executes the next cell from the top
ExecuteNextCell ==
    /\ nPos <= Len(CellsOf(nNb))
    /\ LET r == RunCell(nBound, CellsOf(nNb)[nPos], 1)
       IN  /\ nBound' = r.bound
           /\ nErrors' = nErrors \cup r.errors
    /\ nPos' = nPos + 1
    /\ UNCHANGED <<nNb, nSkipped,
                   bootVars, sessVars, dataVars, attackVars, textVars, shareVars, runVars, explVars, splitVars, poisVars, protoVars, figVars>>

\* the user passes over the next cell
SkipCell ==
    /\ nPos <= Len(CellsOf(nNb))
    /\ nSkipped < MaxSkips
    /\ nSkipped' = nSkipped + 1
    /\ nPos' = nPos + 1
    /\ UNCHANGED <<nNb, nBound, nErrors,
                   bootVars, sessVars, dataVars, attackVars, textVars, shareVars, runVars, explVars, splitVars, poisVars, protoVars, figVars>>

NextNames ==
    \/ ExecuteNextCell
    \/ SkipCell

SpecNames == InitNames /\ [][NextNames]_vars

(***************************************************************************)
(* SpecShared: the global names of notebook 04 that several cells bind or  *)
(* read (clf, ts, samples/labels, x0/y0, pred, attack, smooth_attack,      *)
(* logits_attack), with the cells executed in any order.  A classifier is  *)
(* recorded by its model, a dataset or sample by its dataset, an attack by *)
(* the classifier it was built for.                                        *)
(***************************************************************************)

SharedNames == {"clf", "ts", "samples", "x0", "pred", "attack", "smooth_attack",
                "logits_attack"}

\* the code cells, from the top
SharedOrder == <<"kwta", "cifar", "pgd1", "plot1", "smooth", "plot2",
                 "distilled", "mnist", "pgd2", "plot3", "logits">>

SharedCells == {SharedOrder[i] : i \in 1..Len(SharedOrder)}

\* a loader that returns CIFAR-10 whatever the cell
AlwaysCifar(c) == "cifar"

\* lines 121 and 390: the dataset a data cell loads into ts
DatasetOf(c) == IF c = "cifar" THEN "cifar" ELSE "mnist"

\* lines 96-108 and 368-377: the model a model cell wraps into clf
ModelOf(c) == IF c = "kwta" THEN "kwta" ELSE "distilled"

\* the dataset each model was trained on
Matches(model, data) ==
    \/ model = "kwta" /\ data = "cifar"
    \/ model = "distilled" /\ data = "mnist"

InitShared ==
    /\ sBind = [n \in SharedNames |-> "unbound"]
    /\ sWriter = [n \in SharedNames |-> "none"]
    /\ sLast = "none"
    /\ sRun = NoRun
    /\ sRaised = "none"
    /\ sMismatch = FALSE
    /\ sPos = 1
    /\ sLinear = TRUE
    /\ BootIdle /\ SessIdle /\ DataIdle /\ AttackIdle /\ TextIdle /\ NameIdle
    /\ RunIdle
    /\ ExplIdle
    /\ SplitIdle
    /\ PoisIdle
    /\ ProtoIdle
    /\ FigIdle

\* the names of `reads` that are not bound, in the order they are read
Unread(reads) == SelectSeq(reads, LAMBDA n : sBind[n] = "unbound")

\* cell c binds the names of `binds` (a function from names to values)
SharedBind(c, binds) ==
    /\ sBind' = [n \in SharedNames |-> IF n \in DOMAIN binds THEN binds[n] ELSE sBind[n]]
    /\ sWriter' = [n \in SharedNames |-> IF n \in DOMAIN binds THEN c ELSE sWriter[n]]

\* bookkeeping of every execution of cell c
SharedExecute(c) ==
    /\ c \in SharedCells
    /\ sLast' = c
    /\ sLinear' = (sLinear /\ sPos <= Len(SharedOrder) /\ c = SharedOrder[sPos])
    /\ sPos' = sPos + 1
    /\ sPos <= Len(SharedOrder)
    /\ UNCHANGED <<bootVars, sessVars, dataVars, attackVars, textVars, nameVars, runVars, explVars, splitVars, poisVars, protoVars, figVars>>

\* the cell performs attack.run(sample) with the objects the names are bound to
SharedRun(attackName, sampleName, model, data) ==
    /\ sRun' = [attack |-> attackName, sample |-> sampleName, clf |-> model, data |-> data]
    /\ sMismatch' = (sMismatch \/ ~Matches(model, data))

SharedNoRun == sRun' = NoRun /\ UNCHANGED sMismatch

\* lines 75-108 and 357-377: clf = CClassifierPyTorch(model, ...)
ModelCell(c) ==
    /\ c \in {"kwta", "distilled"}
    /\ SharedExecute(c)
    /\ SharedBind(c, [clf |-> ModelOf(c)])
    /\ SharedNoRun
    /\ sRaised' = "none"

\* lines 120-127 and 389-396: ts = CDataLoader...().load(...); ts = ts[:100, :]
LoaderCell(c) ==
    /\ c \in {"cifar", "mnist"}
    /\ SharedExecute(c)
    /\ SharedBind(c, [ts |-> DatasetOf(c)])
    /\ SharedNoRun
    /\ sRaised' = "none"

\* lines 167-190 and 422-447: samples, labels = ts...; y_pred = clf.predict(samples);
\* attack = (PGD on clf); attack.run(samples, labels)
PgdCell(c) ==
    /\ c \in {"pgd1", "pgd2"}
    /\ SharedExecute(c)
    /\ IF sBind["ts"] = "unbound"
       THEN sRaised' = "NameError" /\ SharedNoRun /\ UNCHANGED <<sBind, sWriter>>
       ELSE IF sBind["clf"] = "unbound"
            THEN /\ sRaised' = "NameError" /\ SharedNoRun
                 /\ SharedBind(c, [samples |-> sBind["ts"]])
            ELSE /\ sRaised' = "none"
                 /\ SharedBind(c, [samples |-> sBind["ts"], attack |-> sBind["clf"]])
                 /\ SharedRun("attack", "samples", sBind["clf"], sBind["ts"])

\* lines 212-231 and 468-484: x0, y0 = ts...; pred = clf.predict(x0);
\* attack.run(x0, y0)
LossPlotCell(c) ==
    /\ c \in {"plot1", "plot3"}
    /\ SharedExecute(c)
    /\ IF sBind["ts"] = "unbound"
       THEN sRaised' = "NameError" /\ SharedNoRun /\ UNCHANGED <<sBind, sWriter>>
       ELSE IF sBind["clf"] = "unbound"
            THEN /\ sRaised' = "NameError" /\ SharedNoRun
                 /\ SharedBind(c, [x0 |-> sBind["ts"]])
            ELSE /\ SharedBind(c, [x0 |-> sBind["ts"],
                                   pred |-> <<sBind["clf"], sBind["ts"]>>])
                 /\ IF sBind["attack"] = "unbound"
                    THEN sRaised' = "NameError" /\ SharedNoRun
                    ELSE /\ sRaised' = "none"
                         /\ SharedRun("attack", "x0", sBind["attack"], sBind["ts"])

\* lines 288-294: smooth_attack = (averaged PGD on clf)
SmoothAttackCell ==
    /\ SharedExecute("smooth")
    /\ SharedNoRun
    /\ IF sBind["clf"] = "unbound"
       THEN sRaised' = "NameError" /\ UNCHANGED <<sBind, sWriter>>
       ELSE sRaised' = "none" /\ SharedBind("smooth", [smooth_attack |-> sBind["clf"]])

\* lines 305-317: smooth_attack.run(x0, y0); print(... pred ...)
SmoothPlotCell ==
    /\ SharedExecute("plot2")
    /\ UNCHANGED <<sBind, sWriter>>
    /\ IF Unread(<<"smooth_attack", "x0">>) # <<>>
       THEN sRaised' = "NameError" /\ SharedNoRun
       ELSE /\ sRaised' = (IF sBind["pred"] = "unbound" THEN "NameError" ELSE "none")
            /\ SharedRun("smooth_attack", "x0", sBind["smooth_attack"], sBind["x0"])

\* lines 542-560: logits_attack = (logits PGD on clf); logits_attack.run(x0, y0)
LogitsCell ==
    /\ SharedExecute("logits")
    /\ IF sBind["clf"] = "unbound"
       THEN sRaised' = "NameError" /\ SharedNoRun /\ UNCHANGED <<sBind, sWriter>>
       ELSE /\ SharedBind("logits", [logits_attack |-> sBind["clf"]])
            /\ IF sBind["x0"] = "unbound"
               THEN sRaised' = "NameError" /\ SharedNoRun
               ELSE /\ sRaised' = (IF sBind["pred"] = "unbound" THEN "NameError" ELSE "none")
                    /\ SharedRun("logits_attack", "x0", sBind["clf"], sBind["x0"])

NextShared ==
    \/ \E c \in {"kwta", "distilled"} : ModelCell(c)
    \/ \E c \in {"cifar", "mnist"} : LoaderCell(c)
    \/ \E c \in {"pgd1", "pgd2"} : PgdCell(c)
    \/ \E c \in {"plot1", "plot3"} : LossPlotCell(c)
    \/ SmoothAttackCell
    \/ SmoothPlotCell
    \/ LogitsCell

SpecShared == InitShared /\ [][NextShared]_vars

(***************************************************************************)
(* SpecExplain: the attribution cell of notebook 06 (lines 200-224).  A    *)
(* relevance value is kept as the term that produced it: <<name, c, j>> is *)
(* component j of the explanation of x for class c by explainer `name`;    *)
(* "empty" is whatever CArray.empty left in the array.                     *)
(***************************************************************************)

\* most classes of a training set (MNIST has 10)
MaxClasses == 3

\* most features of a sample (an MNIST image has 784)
MaxFeatures == 2

\* lines 185-189: the keys of `explainers`, in insertion order
Explainers == <<"gradient", "gradient * input", "integrated gradients">>

\* tr.num_classes
NumClasses == Len(eClasses)

\* the strictly increasing sequences of k labels among 0..k
RECURSIVE Sorted(_)
Sorted(S) ==
    IF S = {} THEN <<>>
    ELSE LET m == CHOOSE x \in S : \A y \in S : x <= y
         IN  <<m>> \o Sorted(S \ {m})

ClassSets == {S \in SUBSET (0..MaxClasses) : S # {} /\ Cardinality(S) <= MaxClasses}

\* line 221: explainer.explain(x, y=c), one relevance value per feature
Explain(name, c) == [j \in 1..eSize |-> <<name, c, j>>]

\* line 216: CArray.empty(shape=(tr.num_classes, x.size))
Empty(rows, cols) ==
    [rows |-> [r \in 1..rows |-> [j \in 1..cols |-> "empty"]],
     writes |-> [r \in 1..rows |-> 0]]

\* every class written to the first row
RowZero(c) == 1

\* line 222: the row attr[c, :] (rows are counted from 1 here)
RowOf(c) == c + 1

InitExplain ==
    /\ \E S \in ClassSets : eClasses = Sorted(S)
    /\ eSize \in 1..MaxFeatures
    /\ ePc = "idle"
    /\ eI = 1
    /\ eK = 1
    /\ eAttr = NoArray
    /\ attributions = [n \in {} |-> NoArray]
    /\ eRaised = "none"
    /\ BootIdle /\ SessIdle /\ DataIdle /\ AttackIdle /\ TextIdle /\ NameIdle
    /\ ShareIdle /\ RunIdle
    /\ SplitIdle
    /\ PoisIdle
    /\ ProtoIdle
    /\ FigIdle

\* lines 200-208: the user executes the cell; attributions = {}
AttributionCell ==
    /\ ePc = "idle"
    /\ attributions' = [n \in {} |-> NoArray]
    /\ eI' = 1
    /\ ePc' = "empty"
    /\ eRaised' = "none"
    /\ UNCHANGED <<eClasses, eSize, eK, eAttr,
                   bootVars, sessVars, dataVars, attackVars, textVars, nameVars,
                   shareVars, runVars, splitVars, poisVars, protoVars, figVars>>

\* lines 210-216: the next explainer; attr = CArray.empty(...)
NewAttr ==
    /\ ePc = "empty"
    /\ eI <= Len(Explainers)
    /\ eAttr' = Empty(NumClasses, eSize)
    /\ eK' = 1
    /\ ePc' = "classes"
    /\ UNCHANGED <<eClasses, eSize, eI, attributions, eRaised,
                   bootVars, sessVars, dataVars, attackVars, textVars, nameVars,
                   shareVars, runVars, splitVars, poisVars, protoVars, figVars>>

\* lines 219-222: attr_c = explain(x, c); attr[c, :] = attr_c; an index that is
\* not a row raises IndexError
AssignRow ==
    /\ ePc = "classes"
    /\ eK <= NumClasses
    /\ LET c == eClasses[eK]
           r == RowOf(c)
       IN  IF r \in 1..NumClasses
           THEN /\ eAttr' = [rows |-> [eAttr.rows EXCEPT ![r] = Explain(Explainers[eI], c)],
                             writes |-> [eAttr.writes EXCEPT ![r] = @ + 1]]
                /\ eK' = eK + 1
                /\ UNCHANGED <<ePc, eRaised>>
           ELSE /\ eRaised' = "IndexError"
                /\ ePc' = "idle"
                /\ UNCHANGED <<eAttr, eK>>
    /\ UNCHANGED <<eClasses, eSize, eI, attributions,
                   bootVars, sessVars, dataVars, attackVars, textVars, nameVars,
                   shareVars, runVars, splitVars, poisVars, protoVars, figVars>>

\* line 224: attributions[expl_name] = attr, after the class loop
StoreAttr ==
    /\ ePc = "classes"
    /\ eK = NumClasses + 1
    /\ attributions' = [n \in DOMAIN attributions \cup {Explainers[eI]} |->
                            IF n = Explainers[eI] THEN eAttr ELSE attributions[n]]
    /\ eI' = eI + 1
    /\ ePc' = (IF eI = Len(Explainers) THEN "idle" ELSE "empty")
    /\ UNCHANGED <<eClasses, eSize, eK, eAttr, eRaised,
                   bootVars, sessVars, dataVars, attackVars, textVars, nameVars,
                   shareVars, runVars, splitVars, poisVars, protoVars, figVars>>

NextExplain ==
    \/ AttributionCell
    \/ NewAttr
    \/ AssignRow
    \/ StoreAttr

SpecExplain == InitExplain /\ [][NextExplain]_vars

(***************************************************************************)
(* SpecSplit: the two CTrainTestSplit calls of the poisoning notebook      *)
(* (lines 80-85).  A sample is its position in `dataset`.  The splitter    *)
(* shuffles the positions with a generator seeded by random_state, takes   *)
(* the first test_size of them as the test set and the next train_size as  *)
(* the training set; the same seed on a dataset of the same size gives the *)
(* same shuffle.                                                           *)
(***************************************************************************)

\* n_tr, n_val and n_ts (the notebook uses 100 each)
SplitSize == 1

\* n_samples (the notebook uses 1000): more than the three sets need
SplitSamples == 5

n_tr == SplitSize
n_val == SplitSize
n_ts == SplitSize

Shuffles == {p \in [1..SplitSamples -> 1..SplitSamples] :
               \A i, j \in 1..SplitSamples : p[i] = p[j] => i = j}

\* CTrainTestSplit(train_size, test_size, random_state).split(dataset)
SplitTest(test_size) == {permutation[i] : i \in 1..test_size}
SplitTrain(train_size, test_size) ==
    {permutation[i] : i \in (test_size + 1)..(test_size + train_size)}

InitSplit ==
    /\ permutation \in Shuffles
    /\ splitPc = "idle"
    /\ tr_val = {} /\ ts = {} /\ tr = {} /\ val = {}
    /\ BootIdle /\ SessIdle /\ DataIdle /\ AttackIdle /\ TextIdle /\ NameIdle
    /\ ShareIdle /\ RunIdle /\ ExplIdle
    /\ PoisIdle
    /\ ProtoIdle
    /\ FigIdle

\* lines 80-82: tr_val, ts = CTrainTestSplit(n_tr + n_val, n_ts, random_state).split(dataset)
SplitTrValTs ==
    /\ splitPc \in {"idle", "done"}
    /\ tr_val' = SplitTrain(n_tr + n_val, n_ts)
    /\ ts' = SplitTest(n_ts)
    /\ splitPc' = "second"
    /\ UNCHANGED <<permutation, tr, val,
                   bootVars, sessVars, dataVars, attackVars, textVars, nameVars,
                   shareVars, runVars, explVars, poisVars, protoVars, figVars>>

\* lines 83-85: tr, val = CTrainTestSplit(n_tr, n_val, random_state).split(dataset)
SplitTrVal ==
    /\ splitPc = "second"
    /\ tr' = SplitTrain(n_tr, n_val)
    /\ val' = SplitTest(n_val)
    /\ splitPc' = "done"
    /\ UNCHANGED <<permutation, tr_val, ts,
                   bootVars, sessVars, dataVars, attackVars, textVars, nameVars,
                   shareVars, runVars, explVars, poisVars, protoVars, figVars>>

NextSplit ==
    \/ SplitTrValTs
    \/ SplitTrVal

SpecSplit == InitSplit /\ [][NextSplit]_vars

(***************************************************************************)
(* SpecRenorm: the data cell and the re-normalisation of the poisoning     *)
(* notebook on a test set of several samples.                              *)
(***************************************************************************)

\* raw feature values of the training blobs
TrainValues == {0, 1}

InitRenorm ==
    /\ dNb = "nb05"
    /\ dRaw \in [tr : [1..NSamples -> [1..n_features -> TrainValues]],
                 val : Blobs(1),
                 ts : Blobs(NSamples)]
    /\ dRaw.val = [i \in 1..1 |-> [j \in 1..n_features |-> 0]]
    /\ dTr = Unbound /\ dVal = Unbound /\ dTs = Unbound /\ dNmz = NoNmz
    /\ dLast = "none" /\ dRan = {} /\ dAgain = {}
    /\ BootIdle /\ SessIdle /\ AttackIdle /\ TextIdle /\ NameIdle
    /\ ShareIdle /\ RunIdle /\ ExplIdle /\ SplitIdle /\ PoisIdle
    /\ ProtoIdle
    /\ FigIdle

NextRenorm ==
    \/ Nb05DataCell
    \/ Nb05Renormalize

SpecRenorm == InitRenorm /\ [][NextRenorm]_vars

(***************************************************************************)
(* SpecPoison: the cells of the poisoning notebook that fit classifiers    *)
(* and fill the result lists, executed in any order.  A classifier is an   *)
(* object of the heap; a name holds a reference to it.                     *)
(***************************************************************************)

\* cell executions in one behaviour
MaxExecutions == 4

\* line 417: n_poisoning_samples = CArray([1, 10, 20, 75, 100])
Budgets == <<1, 10, 20, 75, 100>>

\* line 261: n_samples = 20
SinglePoints == 20

\* the attributes of a CSecEval object the cells may read
SecEvalAttributes == {"sec_eval_data"}

\* line 504: the attribute appended to sec_evals
AppendedAttribute == "sec_exval_data"

\* a reference to the same object
Alias(obj) == obj

\* line 312, line 433: clean_clf.deepcopy() is a new object
Deepcopy(obj) == Len(heap) + 1

InitPoison ==
    /\ heap = <<>>
    /\ clean_clf = NoObject /\ poisoned_clf = NoObject
    /\ pois_ds = NoPoints
    /\ pLists = {}
    /\ n_poisoning_samples = <<>>
    /\ poisoned_clfs = <<>> /\ test_accuracies = <<>> /\ sec_evals = <<>>
    /\ pPc = "idle" /\ pI = 1 /\ pRaised = "none" /\ pExecs = 0
    /\ pFitOnClean = FALSE /\ pPlotted = <<>>
    /\ BootIdle /\ SessIdle /\ DataIdle /\ AttackIdle /\ TextIdle /\ NameIdle
    /\ ShareIdle /\ RunIdle /\ ExplIdle /\ SplitIdle
    /\ ProtoIdle
    /\ FigIdle

\* the user executes a cell
PoisonExecute ==
    /\ pPc = "idle"
    /\ pExecs < MaxExecutions
    /\ pExecs' = pExecs + 1
    /\ UNCHANGED <<bootVars, sessVars, dataVars, attackVars, textVars, nameVars,
                   shareVars, runVars, explVars, splitVars, protoVars, figVars>>

\* the heap after target = Deepcopy(source); target.fit(data with `points`
\* poisoning points)
CopyAndFit(source, points) ==
    LET target == Deepcopy(source)
    IN  /\ heap' = (IF target > Len(heap)
                    THEN Append(heap, [points |-> points, origin |-> source])
                    ELSE [heap EXCEPT ![target].points = points])
        /\ pFitOnClean' = (pFitOnClean \/ (points > 0 /\ target = clean_clf))

\* lines 104-107: clean_clf = CClassifierSVM(...); clean_clf.fit(tr.X, tr.Y)
FitCleanCell ==
    /\ PoisonExecute
    /\ heap' = Append(heap, [points |-> 0, origin |-> NoObject])
    /\ clean_clf' = Len(heap) + 1
    /\ pRaised' = "none"
    /\ UNCHANGED <<poisoned_clf, pois_ds, pLists, n_poisoning_samples, poisoned_clfs,
                   test_accuracies, sec_evals, pPc, pI, pFitOnClean, pPlotted>>

\* lines 261-269: n_poisoning_points = 20; ..., pois_ds, ... = (run of the attack)
SingleAttackCell ==
    /\ PoisonExecute
    /\ pois_ds' = SinglePoints
    /\ pRaised' = "none"
    /\ UNCHANGED <<heap, clean_clf, poisoned_clf, pLists, n_poisoning_samples,
                   poisoned_clfs, test_accuracies, sec_evals, pPc, pI, pFitOnClean, pPlotted>>

\* lines 312-316: poisoned_clf = clean_clf.deepcopy(); pois_tr = tr.append(pois_ds);
\* poisoned_clf.fit(pois_tr.X, pois_tr.Y)
CopyFitCell ==
    /\ PoisonExecute
    /\ IF clean_clf = NoObject
       THEN /\ pRaised' = "NameError"
            /\ UNCHANGED <<heap, poisoned_clf, pFitOnClean>>
       ELSE IF pois_ds = NoPoints
            THEN /\ pRaised' = "NameError"
                 /\ poisoned_clf' = Deepcopy(clean_clf)
                 /\ CopyAndFit(clean_clf, 0)
            ELSE /\ pRaised' = "none"
                 /\ poisoned_clf' = Deepcopy(clean_clf)
                 /\ CopyAndFit(clean_clf, pois_ds)
    /\ UNCHANGED <<clean_clf, pois_ds, pLists, n_poisoning_samples, poisoned_clfs,
                   test_accuracies, sec_evals, pPc, pI, pPlotted>>

\* lines 339-367: plot_decision_regions(clean_clf, ...) in panels 1 and 3,
\* plot_decision_regions(poisoned_clf, ...) in panels 2 and 4
PlotRegionsCell ==
    /\ PoisonExecute
    /\ IF clean_clf = NoObject
       THEN pRaised' = "NameError" /\ UNCHANGED pPlotted
       ELSE IF poisoned_clf = NoObject
            THEN pRaised' = "NameError" /\ pPlotted' = <<heap[clean_clf]>>
            ELSE /\ pRaised' = "none"
                 /\ pPlotted' = <<heap[clean_clf], heap[poisoned_clf],
                                  heap[clean_clf], heap[poisoned_clf]>>
    /\ UNCHANGED <<heap, clean_clf, poisoned_clf, pois_ds, pLists, n_poisoning_samples,
                   poisoned_clfs, test_accuracies, sec_evals, pPc, pI, pFitOnClean>>

\* lines 415-420: n_poisoning_samples = CArray([...]); poisoned_clfs = [];
\* test_accuracies = []
BudgetLoopCell ==
    /\ PoisonExecute
    /\ n_poisoning_samples' = Budgets
    /\ poisoned_clfs' = <<>>
    /\ test_accuracies' = <<>>
    /\ pLists' = pLists \cup {"n_poisoning_samples", "poisoned_clfs", "test_accuracies"}
    /\ pPc' = "budgets"
    /\ pI' = 1
    /\ pRaised' = "none"
    /\ UNCHANGED <<heap, clean_clf, poisoned_clf, pois_ds, sec_evals, pFitOnClean,
                   pPlotted>>

\* lines 425-446, one iteration: poisoned_clf = clean_clf.deepcopy(); fit on the
\* training set joined with p poisoning points; poisoned_clfs.append(poisoned_clf);
\* test_accuracies.append(acc)
BudgetIteration ==
    /\ pPc = "budgets"
    /\ IF clean_clf = NoObject
       THEN /\ pRaised' = "NameError" /\ pPc' = "idle"
            /\ UNCHANGED <<heap, poisoned_clf, poisoned_clfs, test_accuracies, pI,
                           pFitOnClean>>
       ELSE /\ poisoned_clf' = Deepcopy(clean_clf)
            /\ CopyAndFit(clean_clf, n_poisoning_samples[pI])
            /\ poisoned_clfs' = Append(poisoned_clfs, poisoned_clf')
            /\ test_accuracies' = Append(test_accuracies, poisoned_clf')
            /\ pI' = pI + 1
            /\ pPc' = (IF pI = Len(n_poisoning_samples) THEN "idle" ELSE "budgets")
            /\ UNCHANGED pRaised
    /\ UNCHANGED <<clean_clf, pois_ds, pLists, n_poisoning_samples, sec_evals, pExecs,
                   pPlotted,
                   bootVars, sessVars, dataVars, attackVars, textVars, nameVars,
                   shareVars, runVars, explVars, splitVars, protoVars, figVars>>

\* lines 484-496: ...; sec_evals = []; for (...) in zip(poisoned_clfs,
\* n_poisoning_samples)
SecEvalCell ==
    /\ PoisonExecute
    /\ sec_evals' = <<>>
    /\ pLists' = pLists \cup {"sec_evals"}
    /\ pI' = 1
    /\ IF {"poisoned_clfs", "n_poisoning_samples"} \subseteq pLists
       THEN pRaised' = "none" /\ pPc' = "seceval"
       ELSE pRaised' = "NameError" /\ pPc' = "idle"
    /\ UNCHANGED <<heap, clean_clf, poisoned_clf, pois_ds, n_poisoning_samples,
                   poisoned_clfs, test_accuracies, pFitOnClean, pPlotted>>

\* lines 496-504, one iteration of the zip: sec_eval.run_sec_eval(ts);
\* sec_evals.append(sec_eval.<attribute>)
SecEvalIteration ==
    /\ pPc = "seceval"
    /\ IF pI > Len(poisoned_clfs) \/ pI > Len(n_poisoning_samples)
       THEN pPc' = "idle" /\ UNCHANGED <<sec_evals, pI, pRaised>>
       ELSE IF AppendedAttribute \in SecEvalAttributes
            THEN /\ sec_evals' = Append(sec_evals, poisoned_clfs[pI])
                 /\ pI' = pI + 1
                 /\ UNCHANGED <<pPc, pRaised>>
            ELSE /\ pRaised' = "AttributeError" /\ pPc' = "idle"
                 /\ UNCHANGED <<sec_evals, pI>>
    /\ UNCHANGED <<heap, clean_clf, poisoned_clf, pois_ds, pLists, n_poisoning_samples,
                   poisoned_clfs, test_accuracies, pExecs, pFitOnClean, pPlotted,
                   bootVars, sessVars, dataVars, attackVars, textVars, nameVars,
                   shareVars, runVars, explVars, splitVars, protoVars, figVars>>

NextPoison ==
    \/ FitCleanCell
    \/ SingleAttackCell
    \/ CopyFitCell
    \/ PlotRegionsCell
    \/ BudgetLoopCell
    \/ BudgetIteration
    \/ SecEvalCell
    \/ SecEvalIteration

SpecPoison == InitPoison /\ [][NextPoison]_vars

(***************************************************************************)
(* SpecProto: the prototype cell of notebook 06 for one test sample of     *)
(* ts_list: the row of influence values is sorted, the first and the last  *)
(* n_xc training indices are taken and plotted in reverse.  Training       *)
(* indices count from 1.                                                   *)
(***************************************************************************)

\* training samples (columns of infl)
MaxColumns == 6

\* line 492: n_xc = 3
n_xc == 3

\* influence values
InflValues == {0, 1, 2}

\* the results infl[ts_idx, :].argsort() may have: the indices ordered by
\* non-decreasing value, equal values in any order
RECURSIVE ArgsortsOf(_, _)
ArgsortsOf(row, rest) ==
    IF rest = {} THEN {<<>>}
    ELSE UNION {{<<k>> \o s : s \in ArgsortsOf(row, rest \ {k})} :
                   k \in {k \in rest : \A m \in rest : row[k] <= row[m]}}

Argsort(row) == ArgsortsOf(row, DOMAIN row)

\* s as it is
Unreversed(s) == s

\* tr_top[::-1]
Reversed(s) == [j \in 1..Len(s) |-> s[Len(s) + 1 - j]]

InitProto ==
    /\ \E n \in (2 * n_xc - 1)..MaxColumns : infl \in [1..n -> InflValues]
    /\ infl_argsort = <<>> /\ tr_top = <<>> /\ plotted = <<>>
    /\ protoPc = "argsort"
    /\ BootIdle /\ SessIdle /\ DataIdle /\ AttackIdle /\ TextIdle /\ NameIdle
    /\ ShareIdle /\ RunIdle /\ ExplIdle /\ SplitIdle /\ PoisIdle
    /\ FigIdle

\* line 496: infl_argsort = infl.argsort(axis=1)
SortInfluence ==
    /\ protoPc = "argsort"
    /\ infl_argsort' \in Argsort(infl)
    /\ protoPc' = "top"
    /\ UNCHANGED <<infl, tr_top, plotted,
                   bootVars, sessVars, dataVars, attackVars, textVars, nameVars,
                   shareVars, runVars, explVars, splitVars, poisVars, figVars>>

\* lines 515-516: tr_top = infl_argsort[ts_idx, :n_xc];
\* tr_top = tr_top.append(infl_argsort[ts_idx, -n_xc:])
TopPrototypes ==
    /\ protoPc = "top"
    /\ tr_top' = SubSeq(infl_argsort, 1, n_xc)
                    \o SubSeq(infl_argsort, Len(infl_argsort) - n_xc + 1,
                              Len(infl_argsort))
    /\ protoPc' = "plot"
    /\ UNCHANGED <<infl, infl_argsort, plotted,
                   bootVars, sessVars, dataVars, attackVars, textVars, nameVars,
                   shareVars, runVars, explVars, splitVars, poisVars, figVars>>

\* lines 519-522: for j, tr_idx in enumerate(tr_top[::-1]): panel j shows
\* tr.X[tr_idx, :] under the title infl[ts_idx, tr_idx]
PlotPrototypes ==
    /\ protoPc = "plot"
    /\ plotted' = Reversed(tr_top)
    /\ protoPc' = "done"
    /\ UNCHANGED <<infl, infl_argsort, tr_top,
                   bootVars, sessVars, dataVars, attackVars, textVars, nameVars,
                   shareVars, runVars, explVars, splitVars, poisVars, figVars>>

NextProto ==
    \/ SortInfluence
    \/ TopPrototypes
    \/ PlotPrototypes

SpecProto == InitProto /\ [][NextProto]_vars

(***************************************************************************)
(* SpecPlots: the two plotting cells of notebook 06, the figure of the     *)
(* attributions and the figure of the prototypes.  A panel records the     *)
(* arguments of its fig.subplot call and the colour range of its imshow.   *)
(***************************************************************************)

\* pixels of an image
FigPixels == 1

\* tr.num_classes
FigClassCounts == {2, 3}

\* attribution values
AttrValues == {-2, 0, 1}

\* line 494: ts_list = (50, 100)
ts_list == <<50, 100>>

\* attributions[expl_name], one row per class
AttrMatrices(n) == [1..n -> [1..FigPixels -> AttrValues]]

AttrEntries(a) == {a[c][k] : c \in DOMAIN a, k \in 1..FigPixels}

\* attr.min(), attr.max()
AttrMin(a) == CHOOSE v \in AttrEntries(a) : \A w \in AttrEntries(a) : v <= w
AttrMax(a) == CHOOSE v \in AttrEntries(a) : \A w \in AttrEntries(a) : w <= v

MaxOf(x, y) == IF x >= y THEN x ELSE y

MaxOnly(a) == AttrMax(a)

\* line 277: max(abs(attr.min()), abs(attr.max()))
Threshold(a) == MaxOf(Abs(AttrMin(a)), Abs(AttrMax(a)))

\* line 262: sp_idx = i * (tr.num_classes+1)
AttrOffset(i) == i * (fNumClasses + 1)

NoOffset(i) == 0

\* line 500: sp_idx = i * (n_xc*tr.num_classes+1)
ProtoOffset(i) == i * (n_xc * fNumClasses + 1)

\* fig.subplot(rows, cols, index) followed by imshow(..., vmin, vmax) of `row`
Panel(rows, cols, index, kind, vmin, vmax, row) ==
    [rows |-> rows, cols |-> cols, index |-> index, of |-> fI, kind |-> kind,
     vmin |-> vmin, vmax |-> vmax,
     clipped |-> \E k \in DOMAIN row : row[k] < vmin \/ row[k] > vmax]

InitPlots ==
    /\ fNumClasses \in FigClassCounts
    /\ fCell = "none" /\ fPc = "idle" /\ fI = 0 /\ fJ = 0
    /\ attr = <<>> /\ th = NoThreshold /\ panels = <<>>
    /\ BootIdle /\ SessIdle /\ DataIdle /\ AttackIdle /\ TextIdle /\ NameIdle
    /\ ShareIdle /\ RunIdle /\ ExplIdle /\ SplitIdle /\ PoisIdle /\ ProtoIdle

\* line 254: fig = CFigure(height=4.5, width=14, fontsize=13)
AttributionPlotCell ==
    /\ fPc = "idle"
    /\ fCell' = "attributions"
    /\ panels' = <<>>
    /\ fI' = 0
    /\ fPc' = "explainer"
    /\ UNCHANGED <<fNumClasses, fJ, attr, th,
                   bootVars, sessVars, dataVars, attackVars, textVars, nameVars,
                   shareVars, runVars, explVars, splitVars, poisVars, protoVars>>

\* lines 256-277, one explainer: attr = attributions[expl_name]; the panel of
\* the original image; th = max(abs(attr.min()), abs(attr.max()))
ExplainerPanel ==
    /\ fPc = "explainer"
    /\ \E a \in AttrMatrices(fNumClasses) :
        /\ attr' = a
        /\ th' = Threshold(a)
    /\ panels' = Append(panels, Panel(Len(Explainers), fNumClasses + 1,
                                      AttrOffset(fI) + 1, "image", 0, 0, <<>>))
    /\ fJ' = 1
    /\ fPc' = "classes"
    /\ UNCHANGED <<fNumClasses, fCell, fI,
                   bootVars, sessVars, dataVars, attackVars, textVars, nameVars,
                   shareVars, runVars, explVars, splitVars, poisVars, protoVars>>

\* lines 280-284, one class c of tr.classes (c = fJ - 1):
\* fig.subplot(len(explainers), tr.num_classes+1, sp_idx+2+c);
\* imshow(attr[c, :], vmin=-1*th, vmax=th)
ClassPanel ==
    /\ fPc = "classes"
    /\ panels' = Append(panels, Panel(Len(Explainers), fNumClasses + 1,
                                      AttrOffset(fI) + 2 + (fJ - 1), "attribution",
                                      -1 * th, th, attr[fJ]))
    /\ IF fJ < fNumClasses
       THEN fJ' = fJ + 1 /\ UNCHANGED <<fI, fPc>>
       ELSE /\ fJ' = fJ
            /\ fI' = fI + 1
            /\ fPc' = (IF fI + 1 < Len(Explainers) THEN "explainer" ELSE "idle")
    /\ UNCHANGED <<fNumClasses, fCell, attr, th,
                   bootVars, sessVars, dataVars, attackVars, textVars, nameVars,
                   shareVars, runVars, explVars, splitVars, poisVars, protoVars>>

\* lines 490-496: fig = CFigure(height=3.5, width=9, fontsize=13); n_xc = 3;
\* ts_list = (50, 100)
PrototypePlotCell ==
    /\ fPc = "idle"
    /\ fCell' = "prototypes"
    /\ panels' = <<>>
    /\ fI' = 0
    /\ fPc' = "sample"
    /\ UNCHANGED <<fNumClasses, fJ, attr, th,
                   bootVars, sessVars, dataVars, attackVars, textVars, nameVars,
                   shareVars, runVars, explVars, splitVars, poisVars, protoVars>>

\* lines 498-508, one test sample: the panel of the original image
SamplePanel ==
    /\ fPc = "sample"
    /\ panels' = Append(panels, Panel(Len(ts_list), n_xc * fNumClasses + 1,
                                      ProtoOffset(fI) + 1, "image", 0, 0, <<>>))
    /\ fJ' = 0
    /\ fPc' = "prototypes"
    /\ UNCHANGED <<fNumClasses, fCell, fI, attr, th,
                   bootVars, sessVars, dataVars, attackVars, textVars, nameVars,
                   shareVars, runVars, explVars, splitVars, poisVars, protoVars>>

\* lines 519-521, prototype j of the 2 * n_xc of tr_top[::-1]:
\* fig.subplot(len(ts_list), n_xc*tr.num_classes+1, sp_idx+2+j)
PrototypePanel ==
    /\ fPc = "prototypes"
    /\ panels' = Append(panels, Panel(Len(ts_list), n_xc * fNumClasses + 1,
                                      ProtoOffset(fI) + 2 + fJ, "prototype", 0, 0, <<>>))
    /\ IF fJ + 1 < 2 * n_xc
       THEN fJ' = fJ + 1 /\ UNCHANGED <<fI, fPc>>
       ELSE /\ fJ' = fJ
            /\ fI' = fI + 1
            /\ fPc' = (IF fI + 1 < Len(ts_list) THEN "sample" ELSE "idle")
    /\ UNCHANGED <<fNumClasses, fCell, attr, th,
                   bootVars, sessVars, dataVars, attackVars, textVars, nameVars,
                   shareVars, runVars, explVars, splitVars, poisVars, protoVars>>

NextPlots ==
    \/ AttributionPlotCell
    \/ ExplainerPanel
    \/ ClassPanel
    \/ PrototypePlotCell
    \/ SamplePanel
    \/ PrototypePanel

SpecPlots == InitPlots /\ [][NextPlots]_vars

(***************************************************************************)
(* Properties                                                              *)
(***************************************************************************)

\* C1 (as stated): in every notebook's bootstrap cell, for each package, the
\* install step is never reached in an execution in which importing that
\* package succeeded.
C1_InstallOnlyAfterFailedImport ==
    \A p \in Packages : p \in bInstall => bImport[p] # "ok"

\* C1 (amended): only notebook 04 installs each package strictly as a fallback
\* to that package's own failed import.  Notebook 06 reaches its five install
\* lines before any import, whatever the environment holds.  The poisoning
\* notebook always reaches the secml upgrade, and reaches the installs of its
\* except-branch only after an import of secml or of foolbox failed.
C1_InstallGuards ==
    /\ bNb = "nb04" => \A p \in bInstall : bImport[p] = "fail"
    /\ bNb = "nb06" =>
          /\ bInstall = {Nb06Installs[i] : i \in 1..(IF bPc > 5 THEN 5 ELSE bPc - 1)}
          /\ bFallback = {}
    /\ bNb = "nb05" =>
          /\ bPc > 1 => "secml" \in bInstall
          /\ bFallback # {} => \E p \in {"secml", "foolbox"} : bImport[p] = "fail"
          /\ bInstall \subseteq {"secml"} \cup bFallback

\* notebook 04 ran to the end: secml was imported and not installed, foolbox
\* failed to import and was installed
C1_Witness ==
    /\ bNb = "nb04" /\ bPc = 7
    /\ bImport["secml"] = "ok" /\ "secml" \notin bInstall
    /\ bImport["foolbox"] = "fail" /\ "foolbox" \in bInstall


\* C2: notebook 04's bootstrap cell issues `git clone` only in a state where
\* neither `models` nor `unica_mlsec_labs` exists in the current directory, and
\* in a session in which no clone fails it is issued at most once, however often
\* the cell is executed.
C2_CloneOnlyIfMissing ==
    /\ (cell = "bootstrap" /\ Label = "clone") =>
          (~Exists(<<"models">>) /\ ~Exists(<<Repo>>))
    /\ ~cloneFailed => clones <= 1

\* the bootstrap cell is executed again after the clone of an earlier execution
C2_Witness ==
    /\ clones = 1 /\ ~cloneFailed
    /\ cell = "bootstrap" /\ Label = "if_models"
    /\ cwd = <<Repo>>

\* C3: in each of the three model-loading cells download_gdrive is called if and
\* only if the target file does not exist (it is about to be called only when the
\* file is missing, and the cell never gets past the call with the file missing),
\* so no weight file is written by more than one download.
C3_DownloadOnlyIfMissing ==
    /\ (cell \in ModelCells /\ Label = "download") => ~Exists(PathOf(cell))
    /\ (cell \in ModelCells /\ pc > At("download")) => Exists(PathOf(cell))
    /\ \A f \in WeightFiles : dlOk[f] <= 1

\* the distilled-model cell is executed again after it downloaded its file
C3_Witness ==
    /\ cell = "distilled" /\ Label = "exists"
    /\ dlOk[DistilledFile] = 1
    /\ Exists(PathOf("distilled"))

\* C4: in every order and repetition of cell executions each weight file is only
\* ever requested with the identifier of its own model, although the one global
\* name MODEL_ID is assigned by three cells.
C4_DownloadKeyedById ==
    /\ dlCalls \subseteq {<<KwtaFile, KwtaId>>, <<DistilledFile, DistilledId>>,
                          <<TeacherFile, TeacherId>>}
    /\ (cell \in ModelCells /\ Label = "download") => MODEL_ID = ModelIdOf(cell)

\* all three files were requested, in an order that is not top-to-bottom, and the
\* k-WTA cell is about to download while MODEL_ID was last set by another cell's run
C4_Witness ==
    /\ Cardinality(dlCalls) = 3
    /\ ~linear
    /\ cell = "kwta" /\ Label = "model_id" /\ MODEL_ID = TeacherId

\* C5: in a top-to-bottom execution of notebook 04 the directory `pretrained`
\* exists whenever download_gdrive or torch.load is about to be called.
C5_PretrainedExistsTopToBottom ==
    (linear /\ cell \in ModelCells /\ Label \in {"download", "load"}) =>
        Exists(<<"pretrained">>)

\* the top-to-bottom execution reached the teacher cell's download
C5_Witness ==
    /\ linear /\ cell = "teacher" /\ Label = "download"
    /\ dlOk[KwtaFile] = 1 /\ dlOk[DistilledFile] = 1

\* out of order, the distilled cell can reach its download without the directory
C5_OutOfOrderWitness ==
    /\ ~linear /\ cell = "distilled" /\ Label = "download"
    /\ ~Exists(<<"pretrained">>)


\* every value of a features matrix lies in [0, 1]
AllInUnit(m) == \A i \in 1..Len(m) : \A j \in 1..Len(m[i]) : InUnit(m[i][j])

\* C6 (as stated): after each data-loading cell has run, every feature value of
\* every dataset it produced (ts in notebook 04; tr and ts in notebook 06; tr,
\* val and ts in the poisoning notebook) lies in [0, 1].
C6_AllRescaledToUnit ==
    dLast \in {"cifar", "mnist", "mnist59", "data"} =>
        (AllInUnit(dTr) /\ AllInUnit(dVal) /\ AllInUnit(dTs))

\* the raw value x of feature j lies within the training set's range of feature j
InTrainRange(x, j) ==
    /\ \E i \in 1..NSamples : dRaw.tr[i][j] <= x
    /\ \E i \in 1..NSamples : x <= dRaw.tr[i][j]

\* C6 (amended): after a data-loading cell of notebook 04 or 06 every value of ts
\* (and tr) lies in [0, 1]; after the data cell of the poisoning notebook every
\* value of tr lies in [0, 1], while a value of val or ts lies in [0, 1] exactly
\* when its raw value lies within the range the training set has in that
\* feature (for a feature that is constant in tr: within [min, min + 1]).
C6_RescaledToUnit ==
    /\ (dNb \in {"nb04", "nb06"} /\ dLast # "none") =>
          (dTs # Unbound /\ AllInUnit(dTr) /\ AllInUnit(dTs))
    /\ (dNb = "nb06" /\ dLast # "none") => dTr # Unbound
    /\ (dNb = "nb05" /\ dLast = "data") =>
          /\ dTr # Unbound /\ AllInUnit(dTr)
          /\ \A j \in 1..n_features :
                LET const == \A i \in 1..NSamples : dRaw.tr[i][j] = dRaw.tr[1][j]
                    ok(x) == IF const THEN x \in {dRaw.tr[1][j], dRaw.tr[1][j] + 1}
                             ELSE InTrainRange(x, j)
                IN  /\ InUnit(dVal[1][j]) <=> ok(dRaw.val[1][j])
                    /\ InUnit(dTs[1][j]) <=> ok(dRaw.ts[1][j])

\* the data cell of the poisoning notebook has run on a training set without a
\* constant feature; a validation value is above 1, a test value is below 0
C6_Witness ==
    /\ dNb = "nb05" /\ dLast = "data"
    /\ \A j \in 1..n_features : \E i \in 1..NSamples : dRaw.tr[i][j] # dRaw.tr[1][j]
    /\ \E j \in 1..n_features : ~RLe(dVal[1][j], <<1, 1>>)
    /\ \E j \in 1..n_features : ~RLe(<<0, 1>>, dTs[1][j])


\* a run is under way or has returned, and the gradient is zero at every point
\* it has visited
ZeroGradientRun ==
    /\ aPc \in {"step", "plot"}
    /\ \A i \in 1..Len(aSeq) : aGrad[aSeq[i]] = 0

C9_NoAcceleratorNotHandled ==
    /\ ~tCuda =>
          /\ tKind["pred"] # "pipeline"
          /\ tKind["model"] = "unbound"
          /\ tDevice = "none"
          /\ ~TextAt("bert", 4)
          /\ (tCell = "bert" /\ tPc = 0) =>
                /\ tRaised \in {"CudaError", "OSError"}
                /\ tKind["pred"] = tPredAtEntry
    /\ (tCuda /\ tCell = "bert" /\ tPc = 0 /\ tRaised = "none") =>
          /\ tDevice = "cuda:0"
          /\ tKind["pred"] = "pipeline"

\* without an accelerator the model-loading cell was executed after the PGD
\* cell had bound `pred`; both downloads succeeded and the cell ended at .cuda()
C9_Witness ==
    /\ ~tCuda
    /\ tCell = "bert" /\ tPc = 0
    /\ tRaised = "CudaError"
    /\ tKind["tokenizer"] = "tokenizer"
    /\ tPredAtEntry = "int"
    /\ tKind["pred"] = "int"


\* C10: in a single top-to-bottom execution of notebook 04, notebook 06 or the
\* poisoning notebook, in which no cell is passed over, every name a cell reads
\* was bound by that cell or an earlier one: no read raises NameError.
C10_TopToBottomNamesBound ==
    nSkipped = 0 => nErrors = {}

\* the teacher cell of notebook 04, the last code cell, has been reached in a
\* top-to-bottom execution and the names it reads are bound
C10_Witness ==
    /\ nNb = "nb04"
    /\ nSkipped = 0
    /\ nPos = Len(Nb04Cells)
    /\ {"os", "torch", "download_gdrive", "MNIST9Layer", "metric", "clf", "ts"} \subseteq nBound

\* the security-evaluation cells of the poisoning notebook have been executed
\* from the top
C10_PoisoningWitness ==
    /\ nNb = "nb05" /\ nSkipped = 0 /\ nPos = Len(Nb05Cells) + 1
    /\ {"nmz", "poisoned_clfs", "sec_evals"} \subseteq nBound

\* notebook 06 has been executed from the top
C10_ExplainabilityWitness ==
    /\ nNb = "nb06" /\ nSkipped = 0 /\ nPos = Len(Nb06Cells) + 1
    /\ {"pred", "infl", "shap_values"} \subseteq nBound

\* a cell that was passed over leaves a later read unbound
C10_SkippedWitness ==
    /\ nSkipped = 1 /\ nErrors # {}


\* C11: the names of notebook 04 are shared by all cells and a read returns what
\* the last write left, whichever cell wrote it: clf and ts hold the model and the
\* dataset of the cell that bound them last, and a run made by a cell uses the
\* attack and the sample currently bound to the names it reads.  An attack built
\* for one classifier is run on a sample of the other dataset only in an
\* execution that is not top-to-bottom.
C11_SharedNamesOverwritten ==
    /\ sBind["clf"] # "unbound" => sBind["clf"] = ModelOf(sWriter["clf"])
    /\ sBind["ts"] # "unbound" => sBind["ts"] = DatasetOf(sWriter["ts"])
    /\ sRun # NoRun =>
          /\ sRun.clf = sBind[sRun.attack]
          /\ sRun.data = sBind[sRun.sample]
    /\ sMismatch => ~sLinear

\* the k-WTA loss-plot cell is re-executed after the distillation cells: it reads
\* ts as bound by the MNIST cell and attack as bound by the k-WTA PGD cell, and
\* runs the attack built for the k-WTA classifier on an MNIST sample
C11_Witness ==
    /\ sLast = "plot1"
    /\ sRaised = "none"
    /\ sWriter["ts"] = "mnist" /\ sWriter["clf"] = "distilled"
    /\ sWriter["attack"] = "pgd1"
    /\ sRun = [attack |-> "attack", sample |-> "x0", clf |-> "kwta", data |-> "mnist"]
    /\ sBind["pred"] = <<"distilled", "mnist">>


\* C12: once some kernel has executed every cell of notebook 04 from the top
\* without exception, a later kernel started in the same working directory that
\* executes the cells from the top issues no git clone and no download_gdrive
\* call and no cell of it raises; it starts with no name bound, and when it has
\* executed every cell the classifiers, the dataset and the metric are bound
\* again.
C12_SecondRunUsesCache ==
    (kernel > 1 /\ completed /\ linear) =>
        /\ clones = 0 /\ ~cloneFailed
        /\ dlCalls = {} /\ ~dlFailed
        /\ Label \notin {"clone", "download"}
        /\ allOk
        /\ pos = 1 => bound = {}
        /\ RunComplete => {"clf", "teacher_clf", "ts", "metric"} \subseteq bound

\* a first kernel started in an empty directory cloned the repository and
\* downloaded the three weight files; the second kernel has executed every cell
\* from the top
C12_Witness ==
    /\ kernel = 2 /\ completed /\ RunComplete
    /\ cwd0 = <<>>
    /\ cwd = <<Repo>>
    /\ mapLocation # "none"
    /\ \A f \in WeightFiles : <<Repo, "pretrained", f>> \in fs


\* tr.classes is exactly 0..num_classes-1
ClassesContiguous == \A k \in 1..NumClasses : eClasses[k] = k - 1

\* C13: for every explainer, the array stored in attributions[name] after the
\* class loop has shape (number of classes, number of features of x); provided
\* tr.classes is exactly 0..num_classes-1, each of its rows c has been assigned
\* exactly once, with the relevance vector explain(x, c), and no row keeps the
\* content CArray.empty left.
C13_AttributionsPerClass ==
    \A n \in DOMAIN attributions :
        LET a == attributions[n]
        IN  /\ Len(a.rows) = NumClasses
            /\ \A r \in 1..Len(a.rows) : Len(a.rows[r]) = eSize
            /\ ClassesContiguous =>
                  \A k \in 1..NumClasses :
                      /\ a.writes[k] = 1
                      /\ a.rows[k] = Explain(n, eClasses[k])
                      /\ \A j \in 1..eSize : a.rows[k][j] # "empty"

\* the cell has run to its end on a training set of MaxClasses classes and a
\* sample of MaxFeatures features: every explainer has its array
C13_Witness ==
    /\ ePc = "idle" /\ eRaised = "none"
    /\ ClassesContiguous
    /\ NumClasses = MaxClasses /\ eSize = MaxFeatures
    /\ DOMAIN attributions = {Explainers[i] : i \in 1..Len(Explainers)}
    /\ attributions["gradient"].rows[2][1] = <<"gradient", 1, 1>>

\* labels that are not 0..num_classes-1 end the cell with IndexError
C13_IndexErrorWitness ==
    /\ eRaised = "IndexError" /\ ~ClassesContiguous


\* C14 (as stated): after the split, tr, val and ts each hold n samples of
\* `dataset`, they are pairwise disjoint, and tr and val together are exactly the
\* samples of tr_val.
C14_SplitDisjoint ==
    splitPc = "done" =>
        /\ Cardinality(tr) = n_tr /\ Cardinality(val) = n_val /\ Cardinality(ts) = n_ts
        /\ tr \cap val = {} /\ tr \cap ts = {} /\ val \cap ts = {}
        /\ tr \cup val = tr_val

\* what the two calls give: val is the test set of a split of `dataset` with the
\* same seed and the same test size as the first one, so val holds the very
\* samples of ts and none of tr_val; tr is a part of tr_val
C14_Witness ==
    /\ splitPc = "done"
    /\ Cardinality(tr) = n_tr /\ Cardinality(val) = n_val /\ Cardinality(ts) = n_ts
    /\ val = ts
    /\ val \cap tr_val = {}
    /\ tr \subseteq tr_val /\ tr # tr_val


\* the object is fitted on the training set alone
FittedOnTrOnly(obj) == heap[obj].points = 0

\* C15: every fit on data containing poisoning points is called on a deepcopy
\* of clean_clf: the object of clean_clf stays fitted on tr only through any
\* sequence of executions of the poisoning cells, every poisoned object was
\* copied from an object fitted on tr only, and the panels of the original
\* classifier in the decision-region figure show an unpoisoned model.
C15_PoisoningOnCopy ==
    /\ ~pFitOnClean
    /\ clean_clf # NoObject => FittedOnTrOnly(clean_clf)
    /\ \A obj \in 1..Len(heap) :
           heap[obj].points > 0 =>
               /\ obj # clean_clf
               /\ heap[obj].origin # NoObject
               /\ FittedOnTrOnly(heap[obj].origin)
    /\ \A panel \in DOMAIN pPlotted : panel \in {1, 3} => pPlotted[panel].points = 0

\* the 20-point experiment ran on a copy and the figure was drawn afterwards
C15_Witness ==
    /\ clean_clf # NoObject /\ poisoned_clf # NoObject
    /\ poisoned_clf # clean_clf
    /\ heap[poisoned_clf].points = SinglePoints
    /\ heap[poisoned_clf].origin = clean_clf
    /\ Len(pPlotted) = 4
    /\ pPlotted[2].points = SinglePoints

\* an iteration of the poisoning-budget loop fitted a copy
C15_LoopWitness ==
    /\ clean_clf # NoObject
    /\ Len(poisoned_clfs) = Len(Budgets)
    /\ \A i \in 1..Len(Budgets) :
           /\ heap[poisoned_clfs[i]].points = Budgets[i]
           /\ heap[poisoned_clfs[i]].origin = clean_clf

\* poisoned_clfs and test_accuracies hold one entry per budget, in budget order
BudgetListsInOrder ==
    /\ Len(poisoned_clfs) = Len(n_poisoning_samples)
    /\ Len(test_accuracies) = Len(n_poisoning_samples)
    /\ \A i \in 1..Len(n_poisoning_samples) :
           /\ heap[poisoned_clfs[i]].points = n_poisoning_samples[i]
           /\ test_accuracies[i] = poisoned_clfs[i]

\* C16: when the security-evaluation loop ends after a poisoning-budget loop
\* that completed, sec_evals holds exactly len(n_poisoning_samples) = 5
\* entries, entry i being the curve of the classifier of budget
\* n_poisoning_samples[i], however often the cells were executed before.
C16_OneResultPerBudget ==
    [][(pPc = "seceval" /\ pPc' = "idle" /\ BudgetListsInOrder) =>
           /\ Len(sec_evals') = Len(n_poisoning_samples)
           /\ \A i \in 1..Len(n_poisoning_samples) : sec_evals'[i] = poisoned_clfs[i]]_vars

\* the budget loop ran twice and left one entry per budget; the security
\* evaluation then stopped in its first iteration
C16_Witness ==
    /\ pPc = "idle"
    /\ Len(heap) >= 2 * Len(Budgets) + 1
    /\ n_poisoning_samples = Budgets
    /\ BudgetListsInOrder
    /\ pRaised = "AttributeError"
    /\ sec_evals = <<>>


\* feature j takes more than one value in the matrix
NonConstant(m, j) == \E i \in 1..Len(m), k \in 1..Len(m) : m[i][j] # m[k][j]

Highest(set) == \A k \in set : \A m \in (DOMAIN infl) \ set : infl[m] <= infl[k]
Lowest(set) == \A k \in set : \A m \in (DOMAIN infl) \ set : infl[k] <= infl[m]

\* C18: for every row of influence values with at least 2 * n_xc training
\* columns, the indices plotted from left to right are n_xc training samples
\* of highest influence followed by n_xc of lowest influence: 2 * n_xc distinct
\* indices whose influence values do not increase from left to right.
C18_HighestFirst ==
    (protoPc = "done" /\ Len(infl) >= 2 * n_xc) =>
        /\ Len(plotted) = 2 * n_xc
        /\ \A j \in 1..(2 * n_xc) : plotted[j] \in DOMAIN infl
        /\ \A j, k \in 1..(2 * n_xc) : j # k => plotted[j] # plotted[k]
        /\ \A j \in 1..(2 * n_xc - 1) : infl[plotted[j]] >= infl[plotted[j + 1]]
        /\ Highest({plotted[j] : j \in 1..n_xc})
        /\ Lowest({plotted[j] : j \in (n_xc + 1)..(2 * n_xc)})

\* six prototypes were plotted from a row with ties and with distinct values
C18_Witness ==
    /\ protoPc = "done" /\ Len(infl) >= 2 * n_xc
    /\ infl[plotted[1]] > infl[plotted[n_xc]]
    /\ infl[plotted[n_xc]] > infl[plotted[n_xc + 1]]
    /\ infl[plotted[n_xc + 1]] = infl[plotted[n_xc + 2]]
    /\ plotted[n_xc + 2] < plotted[n_xc + 1]

\* with fewer than 2 * n_xc columns an index is plotted twice
C18_TooFewColumnsWitness ==
    /\ protoPc = "done" /\ Len(infl) < 2 * n_xc
    /\ \E j, k \in 1..(2 * n_xc) : j # k /\ plotted[j] = plotted[k]


\* the subplot indices of the figure
Used == {panels[k].index : k \in DOMAIN panels}

C19_ThreeClassesWitness ==
    /\ fCell = "prototypes" /\ fNumClasses = 3 /\ fPc = "idle"
    /\ Used # 1..(panels[1].rows * panels[1].cols)

\* C20: for every explainer the threshold th is non-negative and every
\* attribution value of every class row lies in [-th, th]; the colour range of
\* a class panel is [-th, th], centred on zero, the same for all classes of one
\* explainer, and clips no value.
C20_SymmetricRange ==
    fCell = "attributions" =>
        /\ th # NoThreshold =>
               /\ th >= 0
               /\ \A v \in AttrEntries(attr) : -th <= v /\ v <= th
               /\ \E v \in AttrEntries(attr) : v = th \/ v = -th
        /\ \A k \in DOMAIN panels :
               panels[k].kind = "attribution" =>
                   /\ panels[k].vmin = -panels[k].vmax
                   /\ panels[k].vmax >= 0
                   /\ ~panels[k].clipped
                   /\ \A m \in DOMAIN panels :
                          (panels[m].kind = "attribution" /\ panels[m].of = panels[k].of)
                              => panels[m].vmax = panels[k].vmax
        /\ (fPc = "classes" /\ fJ > 1) => panels[Len(panels)].vmax = th

\* the figure is complete; the range of one explainer came from its most
\* negative value, that of another from its largest value
C20_Witness ==
    /\ fCell = "attributions" /\ fPc = "idle"
    /\ Len(panels) = Len(Explainers) * (fNumClasses + 1)
    /\ panels[2].vmin = -1 /\ panels[2].vmax = 1
    /\ AttrMin(attr) = -2 /\ AttrMax(attr) = 1 /\ th = 2
    /\ panels[Len(panels)].vmin = -2 /\ panels[Len(panels)].vmax = 2


\* C21: in each of the three model-loading cells of notebook 04 the state dict
\* is loaded with map_location CPU when CUDA is not available, and CUDA is the
\* map location only when it is available.
C21_LoadNeedsNoAccelerator ==
    (cell \in ModelCells /\ Label = "wrap") =>
        /\ mapLocation = MapLocationOf(cell)
        /\ ~cuda => mapLocation = "cpu"
        /\ mapLocation = "cuda" => cuda
        /\ mapLocation \in {"cpu", "cuda", "default"}

\* the teacher's weights were loaded on a machine without CUDA
C21_Witness ==
    /\ cell = "teacher" /\ Label = "wrap"
    /\ ~cuda /\ mapLocation = "cpu"

\* with CUDA the k-WTA cell leaves the map location to torch.load
C21_KwtaCudaWitness ==
    /\ cell = "kwta" /\ Label = "wrap"
    /\ cuda /\ mapLocation = "default"

\* with CUDA the distilled cell maps to CUDA
C21_DistilledCudaWitness ==
    /\ cell = "distilled" /\ Label = "wrap"
    /\ cuda /\ mapLocation = "cuda"

\* C22: the bootstrap cell of notebook 04 is idempotent.  An execution that
\* ends without an exception leaves `models` in the current directory; from
\* then on `models` stays in the current directory, and an execution of the
\* cell started there changes neither the current directory nor the file
\* system and clones nothing; the current directory is never a
\* unica_mlsec_labs nested in unica_mlsec_labs.
C22_BootstrapIdempotent ==
    [][/\ (cell = "bootstrap" /\ cell' = "idle" /\ raised' = "none") =>
              (cwd' \o <<"models">>) \in fs'
       /\ Exists(<<"models">>) => (cwd' \o <<"models">>) \in fs'
       /\ (cell = "bootstrap" /\ Exists(<<"models">>)) =>
              (cwd' = cwd /\ fs' = fs /\ clones' = clones /\ cloneFailed' = cloneFailed)
       /\ Len(cwd') <= 1]_vars

\* the cell cloned the repository in its first execution and has ended a
\* second execution in the same directory
C22_Witness ==
    /\ cell = "idle" /\ raised = "none"
    /\ bound = {"os"} /\ ~linear
    /\ clones = 1 /\ ~cloneFailed
    /\ cwd = <<Repo>> /\ Exists(<<"models">>)

\* started next to an existing repository, the cell changed into it without cloning
C22_RepoPresentWitness ==
    /\ cell = "idle" /\ raised = "none"
    /\ bound = {"os"} /\ ~linear
    /\ clones = 0 /\ ~cloneFailed
    /\ cwd = <<Repo>> /\ Exists(<<"models">>)


\* the raw values of a loaded matrix, each divided by 255 once
Once(raw) == [i \in 1..Len(raw) |-> [j \in 1..Len(raw[i]) |-> Rat(raw[i][j], 255)]]

\* every row of m is a row of the matrix `all`
RowsOf(m, all) == \A i \in 1..Len(m) : \E k \in 1..Len(all) : m[i] = all[k]

\* C23: after any number of executions and re-executions of the data-loading
\* cells of notebooks 04 and 06, the features of the current ts (and tr) are
\* the raw values of the dataset loaded last, divided by 255 once.
C23_RescaledOnce ==
    /\ (dNb = "nb04" /\ dLast = "cifar") => dTs = Subset(Once(dRaw.cifar))
    /\ (dNb = "nb04" /\ dLast = "mnist") => dTs = Subset(Once(dRaw.mnist))
    /\ (dNb = "nb06" /\ dLast = "mnist") =>
           (dTr = Once(dRaw.train) /\ dTs = Once(dRaw.test))
    /\ (dNb = "nb06" /\ dLast = "mnist59") =>
           /\ Len(dTr) > 0 /\ RowsOf(dTr, Once(dRaw.train))
           /\ Len(dTs) > 0 /\ RowsOf(dTs, Once(dRaw.test))

\* the CIFAR10 cell of notebook 04 was executed, then the MNIST cell, then the
\* CIFAR10 cell again; the first pixel of ts is 255 / 255
C23_Witness ==
    /\ dNb = "nb04" /\ dLast = "cifar"
    /\ "cifar" \in dAgain /\ "mnist" \in dRan
    /\ dRaw.cifar[1][1] = 255 /\ dTs[1][1] = <<1, 1>>

\* both loading cells of notebook 06 were executed more than once
C23_ExplainabilityWitness ==
    /\ dNb = "nb06" /\ dLast = "mnist59"
    /\ dAgain = {"mnist", "mnist59"}
    /\ dRaw.train[1][1] = 128 /\ dTr[1][1] = <<128, 255>>

=============================================================================
